---- MODULE Spec2Model ----
(***************************************************************************)
(* mcp-shield: the detection engine of tool-analyzer (the category         *)
(* detectors and the cross-origin correlator), the connector getTools, the *)
(* secondary opinion analyzeWithClaude, the scan of the configured servers *)
(* with its progress events, and the tree display of the command line.     *)
(*                                                                         *)
(* A JavaScript string is modelled as a sequence of one-character strings, *)
(* a RegExp as a syntax tree run by a backtracking matcher that returns    *)
(* the candidate end offsets in the engine's priority order, and a call    *)
(* of an exported function as one action that records the arguments and    *)
(* the outcome (a returned value or a thrown error).                       *)
(***************************************************************************)
EXTENDS Integers, Sequences, FiniteSets, TLC

VARIABLES
  call,      \* the exported function last called, "none" before the first call
  args,      \* the arguments of that call
  outcome,   \* what the call produced: a return value or a thrown error
  connector, \* one call of getTools: where it stands, its promises, its timer
  analyzer,  \* one call of analyzeWithClaude
  scan,      \* one scan of the configured servers
  display    \* the tree and the terminal of scanWithTreeDisplay

vars == <<call, args, outcome, connector, analyzer, scan, display>>

(***************************************************************************)
(* Characters.                                                             *)
(***************************************************************************)
\* The printable ASCII characters in code order, U+0020 first ("grave" stands
\* for U+0060, which the string syntax of TLA+ cannot hold).
Printable ==
  << " ", "!", "\"", "#", "$", "%", "&", "'", "(", ")", "*", "+", ",", "-", ".", "/",
     "0", "1", "2", "3", "4", "5", "6", "7", "8", "9", ":", ";", "<", "=", ">", "?",
     "@", "A", "B", "C", "D", "E", "F", "G", "H", "I", "J", "K", "L", "M", "N", "O",
     "P", "Q", "R", "S", "T", "U", "V", "W", "X", "Y", "Z", "[", "\\", "]", "^", "_",
     "grave", "a", "b", "c", "d", "e", "f", "g", "h", "i", "j", "k", "l", "m", "n", "o",
     "p", "q", "r", "s", "t", "u", "v", "w", "x", "y", "z", "{", "|", "}", "~" >>

Range(s) == {s[i] : i \in DOMAIN s}

WhiteSpace == {" ", "\t", "\n", "\r"}

LineTerminators == {"\n", "\r"}

AllChars == Range(Printable) \cup WhiteSpace

\* Position of a printable character in Printable (its code minus 31).
PrintableIndex(c) == CHOOSE k \in DOMAIN Printable : Printable[k] = c

\* [a-b] of a character class: the characters whose code lies between the two.
CharRange(lo, hi) == {Printable[k] : k \in PrintableIndex(lo)..PrintableIndex(hi)}

UpperCaseLetters == CharRange("A", "Z")

LowerCaseLetters == CharRange("a", "z")

Digits == CharRange("0", "9")

\* \w of the RegExp grammar, which decides \b.
WordChars == UpperCaseLetters \cup LowerCaseLetters \cup Digits \cup {"_"}

\* String.prototype.toLowerCase, one character.
LowerTable ==
  [c \in AllChars |->
     IF c \in UpperCaseLetters
       THEN Printable[PrintableIndex(c) + (PrintableIndex("a") - PrintableIndex("A"))]
       ELSE c]

\* Canonicalize of the RegExp i flag: simple upper-casing.
CanonicalizeTable ==
  [c \in AllChars |->
     IF c \in LowerCaseLetters
       THEN Printable[PrintableIndex(c) - (PrintableIndex("a") - PrintableIndex("A"))]
       ELSE c]

toLowerCase(s) == [i \in 1..Len(s) |-> LowerTable[s[i]]]

\* String.prototype.substring(start, end), offsets counted from 0.
substring(s, start, end) == SubSeq(s, start + 1, end)

\* Whether `piece` occurs in `s` as a contiguous substring.
IsSubstring(piece, s) ==
  \E st \in 0..(Len(s) - Len(piece)) : substring(s, st, st + Len(piece)) = piece

Max(a, b) == IF a >= b THEN a ELSE b

Min(a, b) == IF a <= b THEN a ELSE b

(***************************************************************************)
(* The RegExp engine: syntax trees.                                        *)
(***************************************************************************)
Chr(c) == [k |-> "chr", c |-> c]

AnyChar == [k |-> "any"]

Class(s) == [k |-> "set", s |-> s]

WordBoundary == [k |-> "wb"]

Cat(a) == [k |-> "cat", a |-> a]

Alt(a) == [k |-> "alt", a |-> a]

Opt(r, greedy) == [k |-> "opt", r |-> r, greedy |-> greedy]

Star(r, greedy) == [k |-> "star", r |-> r, greedy |-> greedy]

Plus(r, greedy) == [k |-> "plus", r |-> r, greedy |-> greedy]

NotAhead(r) == [k |-> "nla", r |-> r]

Ahead(r) == [k |-> "la", r |-> r]

NotClass(s) == [k |-> "nset", s |-> s]

InputStart == [k |-> "bol"]

InputEnd == [k |-> "eol"]

Str(cs) == Cat([i \in 1..Len(cs) |-> Chr(cs[i])])

(***************************************************************************)
(* The RegExp engine: matching with the i flag.  Ends(n, t, i) is the      *)
(* sequence of offsets at which a match of n that starts at offset i of t  *)
(* can end, in the order the backtracking engine tries them.               *)
(***************************************************************************)
IsWordAt(t, i) == i >= 1 /\ i <= Len(t) /\ t[i] \in WordChars

RECURSIVE Ends(_, _, _)
RECURSIVE EndsCat(_, _, _, _)
RECURSIVE ThreadCat(_, _, _, _, _)
RECURSIVE EndsAlt(_, _, _, _)
RECURSIVE EndsStar(_, _, _, _)
RECURSIVE ThreadStar(_, _, _, _, _)

Ends(n, t, i) ==
  CASE n.k = "chr" ->
         IF i < Len(t) /\ CanonicalizeTable[t[i + 1]] = CanonicalizeTable[n.c]
           THEN <<i + 1>> ELSE <<>>
    [] n.k = "any" ->
         IF i < Len(t) /\ t[i + 1] \notin LineTerminators THEN <<i + 1>> ELSE <<>>
    [] n.k = "set" ->
         IF i < Len(t) /\ \E c \in n.s : CanonicalizeTable[c] = CanonicalizeTable[t[i + 1]]
           THEN <<i + 1>> ELSE <<>>
    [] n.k = "nset" ->
         IF i < Len(t) /\ ~\E c \in n.s : CanonicalizeTable[c] = CanonicalizeTable[t[i + 1]]
           THEN <<i + 1>> ELSE <<>>
    [] n.k = "bol" -> IF i = 0 THEN <<i>> ELSE <<>>
    [] n.k = "eol" -> IF i = Len(t) THEN <<i>> ELSE <<>>
    [] n.k = "la" -> IF Ends(n.r, t, i) # <<>> THEN <<i>> ELSE <<>>
    [] n.k = "wb" ->
         IF IsWordAt(t, i) # IsWordAt(t, i + 1) THEN <<i>> ELSE <<>>
    [] n.k = "cat" -> EndsCat(n.a, 1, t, i)
    [] n.k = "alt" -> EndsAlt(n.a, 1, t, i)
    [] n.k = "opt" ->
         IF n.greedy THEN Ends(n.r, t, i) \o <<i>> ELSE <<i>> \o Ends(n.r, t, i)
    [] n.k = "star" -> EndsStar(n.r, n.greedy, t, i)
    [] n.k = "plus" -> ThreadStar(Ends(n.r, t, i), 1, n.r, n.greedy, t)
    [] n.k = "nla" -> IF Ends(n.r, t, i) = <<>> THEN <<i>> ELSE <<>>

EndsCat(a, j, t, i) ==
  IF j > Len(a) THEN <<i>> ELSE ThreadCat(Ends(a[j], t, i), 1, a, j + 1, t)

ThreadCat(es, p, a, j, t) ==
  IF p > Len(es) THEN <<>>
  ELSE EndsCat(a, j, t, es[p]) \o ThreadCat(es, p + 1, a, j, t)

EndsAlt(a, j, t, i) ==
  IF j > Len(a) THEN <<>> ELSE Ends(a[j], t, i) \o EndsAlt(a, j + 1, t, i)

\* An iteration of a starred term that consumes nothing is rejected.
EndsStar(r, greedy, t, i) ==
  LET more == ThreadStar(SelectSeq(Ends(r, t, i), LAMBDA e : e > i), 1, r, greedy, t)
  IN  IF greedy THEN more \o <<i>> ELSE <<i>> \o more

ThreadStar(es, p, r, greedy, t) ==
  IF p > Len(es) THEN <<>>
  ELSE EndsStar(r, greedy, t, es[p]) \o ThreadStar(es, p + 1, r, greedy, t)

NoMatch == [found |-> FALSE, index |-> 0, text |-> <<>>]

RECURSIVE ExecFrom(_, _, _)
ExecFrom(re, t, s) ==
  IF s > Len(t) THEN NoMatch
  ELSE LET es == Ends(re, t, s)
       IN  IF es = <<>> THEN ExecFrom(re, t, s + 1)
           ELSE [found |-> TRUE, index |-> s, text |-> substring(t, s, Head(es))]

\* String.prototype.match with a RegExp that has no g flag: the leftmost
\* match, as {index, [0]}, or null.
StringMatch(t, re) == ExecFrom(re, t, 0)

(***************************************************************************)
(* The RegExp engine: new RegExp(source, 'i').  The pattern grammar of a   *)
(* RegExp without the u flag, for sources made of \b, the syntax           *)
(* characters . * + ? ( ) [ ] | ^ $ and literal characters.  A parse gives *)
(* the tree and the position after it, or the SyntaxError the constructor  *)
(* throws.  A source is never drawn with a backslash of its own or a       *)
(* brace, so \b is the one escape and there is no counted quantifier.      *)
(* Each production parses its part once: the result of the inner parse is  *)
(* bound as the one element of a singleton set and the production's value  *)
(* is the one element of the set of values built from it.                  *)
(***************************************************************************)
Parsed(node, pos) == [ok |-> TRUE, node |-> node, pos |-> pos, error |-> "none"]

SyntaxError(message) == [ok |-> FALSE, node |-> Cat(<<>>), pos |-> 0, error |-> message]

QuantifierChars == {"*", "+", "?"}

RECURSIVE ParseDisjunction(_, _)
RECURSIVE ParseMoreAlternatives(_, _, _)
RECURSIVE ParseAlternative(_, _, _)
RECURSIVE ParseTerm(_, _)
RECURSIVE ParseGroup(_, _)
RECURSIVE ParseClassItems(_, _, _)

\* Atom Quantifier: * + ? and their lazy forms *? +? ??.
ParseQuantifier(src, p, atom) ==
  IF p <= Len(src) /\ src[p] \in QuantifierChars
    THEN LET lazy == p + 1 <= Len(src) /\ src[p + 1] = "?"
             node == CASE src[p] = "*" -> Star(atom, ~lazy)
                       [] src[p] = "+" -> Plus(atom, ~lazy)
                       [] src[p] = "?" -> Opt(atom, ~lazy)
         IN  Parsed(node, IF lazy THEN p + 2 ELSE p + 1)
    ELSE Parsed(atom, p)

\* The members of a character class from position q on, up to its "]".
ParseClassItems(src, q, members) ==
  IF q > Len(src) THEN SyntaxError("Unterminated character class")
  ELSE IF src[q] = "]" THEN Parsed(members, q + 1)
  ELSE IF q + 2 <= Len(src) /\ src[q + 1] = "-" /\ src[q + 2] # "]"
    THEN IF PrintableIndex(src[q]) > PrintableIndex(src[q + 2])
           THEN SyntaxError("Range out of order in character class")
           ELSE ParseClassItems(src, q + 3, members \cup CharRange(src[q], src[q + 2]))
  ELSE ParseClassItems(src, q + 1, members \cup {src[q]})

ParseClass(src, p) ==
  LET negated == p + 1 <= Len(src) /\ src[p + 1] = "^"
  IN  CHOOSE result \in
        { IF ~items.ok THEN items
          ELSE ParseQuantifier(src, items.pos,
                 IF negated THEN NotClass(items.node) ELSE Class(items.node)) :
          items \in {ParseClassItems(src, IF negated THEN p + 2 ELSE p + 1, {})} } : TRUE

\* ( Disjunction ), (?: ), (?= ) and (?! ), with src[p] = "(".
ParseGroup(src, p) ==
  LET special == p + 1 <= Len(src) /\ src[p + 1] = "?"
      kind    == IF special /\ p + 2 <= Len(src) THEN src[p + 2] ELSE "none"
  IN  IF special /\ kind \notin {":", "=", "!"} THEN SyntaxError("Invalid group")
      ELSE CHOOSE result \in
        { IF ~inner.ok THEN inner
          ELSE IF inner.pos > Len(src) \/ src[inner.pos] # ")"
            THEN SyntaxError("Unterminated group")
          ELSE ParseQuantifier(src, inner.pos + 1,
                 CASE kind = "=" -> Ahead(inner.node)
                   [] kind = "!" -> NotAhead(inner.node)
                   [] OTHER -> inner.node) :
          inner \in {ParseDisjunction(src, IF special THEN p + 3 ELSE p + 1)} } : TRUE

ParseTerm(src, p) ==
  LET c == src[p]
  IN  CASE c = "^" -> Parsed(InputStart, p + 1)
        [] c = "$" -> Parsed(InputEnd, p + 1)
        [] c = "\\" ->
             IF p + 1 > Len(src) THEN SyntaxError("\\ at end of pattern")
             ELSE IF src[p + 1] = "b" THEN Parsed(WordBoundary, p + 2)
             ELSE ParseQuantifier(src, p + 2, Chr(src[p + 1]))
        [] c \in QuantifierChars -> SyntaxError("Nothing to repeat")
        [] c = "(" -> ParseGroup(src, p)
        [] c = "[" -> ParseClass(src, p)
        [] c = "." -> ParseQuantifier(src, p + 1, AnyChar)
        [] OTHER -> ParseQuantifier(src, p + 1, Chr(c))

ParseAlternative(src, p, terms) ==
  IF p > Len(src) \/ src[p] \in {"|", ")"} THEN Parsed(Cat(terms), p)
  ELSE CHOOSE result \in
         { IF ~term.ok THEN term
           ELSE ParseAlternative(src, term.pos, Append(terms, term.node)) :
           term \in {ParseTerm(src, p)} } : TRUE

ParseMoreAlternatives(src, p, alternatives) ==
  IF p <= Len(src) /\ src[p] = "|"
    THEN CHOOSE result \in
           { IF ~next.ok THEN next
             ELSE ParseMoreAlternatives(src, next.pos, Append(alternatives, next.node)) :
             next \in {ParseAlternative(src, p + 1, <<>>)} } : TRUE
    ELSE Parsed(Alt(alternatives), p)

ParseDisjunction(src, p) ==
  CHOOSE result \in
    { IF ~first.ok THEN first ELSE ParseMoreAlternatives(src, first.pos, <<first.node>>) :
      first \in {ParseAlternative(src, p, <<>>)} } : TRUE

\* new RegExp(source, 'i'): the tree, or the SyntaxError.
NewRegExp(src) ==
  CHOOSE result \in
    { IF ~whole.ok THEN whole
      ELSE IF whole.pos <= Len(src) THEN SyntaxError("Unmatched ')'")
      ELSE whole :
      whole \in {ParseDisjunction(src, 1)} } : TRUE

(***************************************************************************)
(* The rule tables of the three text detectors, one entry per rule: its    *)
(* name, the source of its RegExp (flag i) and that RegExp as a tree.      *)
(***************************************************************************)
detectHiddenInstructionsPatterns ==
  << [name |-> "Concealment directive", source |-> "\\bdo not (tell|inform|alert|notify|mention)(?!\\s+(to\\s+)?use)",
      pattern |-> Cat(<<WordBoundary, Str(<<"d", "o", " ", "n", "o", "t", " ">>),
        Alt(<<Str(<<"t", "e", "l", "l">>), Str(<<"i", "n", "f", "o", "r", "m">>), Str(<<"a",
        "l", "e", "r", "t">>), Str(<<"n", "o", "t", "i", "f", "y">>), Str(<<"m", "e", "n", "t",
        "i", "o", "n">>)>>), NotAhead(Cat(<<Plus(Class(WhiteSpace), TRUE), Opt(Cat(<<Str(<<"t",
        "o">>), Plus(Class(WhiteSpace), TRUE)>>), TRUE), Str(<<"u", "s", "e">>)>>))>>)],
     [name |-> "Hide instruction", source |-> "\\bhide this\\b",
      pattern |-> Cat(<<WordBoundary, Str(<<"h", "i", "d", "e", " ", "t", "h", "i", "s">>),
        WordBoundary>>)],
     [name |-> "Visibility restriction", source |-> "\\bnot visible\\b",
      pattern |-> Cat(<<WordBoundary, Str(<<"n", "o", "t", " ", "v", "i", "s", "i", "b", "l",
        "e">>), WordBoundary>>)],
     [name |-> "User visibility restriction", source |-> "\\buser (should not|must not|cannot) see\\b",
      pattern |-> Cat(<<WordBoundary, Str(<<"u", "s", "e", "r", " ">>), Alt(<<Str(<<"s", "h",
        "o", "u", "l", "d", " ", "n", "o", "t">>), Str(<<"m", "u", "s", "t", " ", "n", "o",
        "t">>), Str(<<"c", "a", "n", "n", "o", "t">>)>>), Str(<<" ", "s", "e", "e">>),
        WordBoundary>>)],
     [name |-> "Display restriction", source |-> "\\bdon'?t (show|display|reveal)",
      pattern |-> Cat(<<WordBoundary, Str(<<"d", "o", "n">>), Opt(Str(<<"'">>), TRUE),
        Str(<<"t", " ">>), Alt(<<Str(<<"s", "h", "o", "w">>), Str(<<"d", "i", "s", "p", "l",
        "a", "y">>), Str(<<"r", "e", "v", "e", "a", "l">>)>>)>>)],
     [name |-> "Instructions tag", source |-> "<instructions>[\\s\\S]*?<\\/instructions>",
      pattern |-> Cat(<<Str(<<"<", "i", "n", "s", "t", "r", "u", "c", "t", "i", "o", "n", "s",
        ">">>), Star(Class(WhiteSpace \cup (AllChars \ WhiteSpace)), FALSE), Str(<<"<", "/",
        "i", "n", "s", "t", "r", "u", "c", "t", "i", "o", "n", "s", ">">>)>>)],
     [name |-> "Important tag", source |-> "<important>[\\s\\S]*?<\\/important>",
      pattern |-> Cat(<<Str(<<"<", "i", "m", "p", "o", "r", "t", "a", "n", "t", ">">>),
        Star(Class(WhiteSpace \cup (AllChars \ WhiteSpace)), FALSE), Str(<<"<", "/", "i", "m",
        "p", "o", "r", "t", "a", "n", "t", ">">>)>>)],
     [name |-> "Secret tag", source |-> "<secret>[\\s\\S]*?<\\/secret>",
      pattern |-> Cat(<<Str(<<"<", "s", "e", "c", "r", "e", "t", ">">>), Star(Class(WhiteSpace
        \cup (AllChars \ WhiteSpace)), FALSE), Str(<<"<", "/", "s", "e", "c", "r", "e", "t",
        ">">>)>>)],
     [name |-> "System tag", source |-> "<system>[\\s\\S]*?<\\/system>",
      pattern |-> Cat(<<Str(<<"<", "s", "y", "s", "t", "e", "m", ">">>), Star(Class(WhiteSpace
        \cup (AllChars \ WhiteSpace)), FALSE), Str(<<"<", "/", "s", "y", "s", "t", "e", "m",
        ">">>)>>)],
     [name |-> "Shorthand tag", source |-> "<s>[\\s\\S]*?<\\/s>",
      pattern |-> Cat(<<Str(<<"<", "s", ">">>), Star(Class(WhiteSpace \cup (AllChars \
        WhiteSpace)), FALSE), Str(<<"<", "/", "s", ">">>)>>)],
     [name |-> "Instruction override", source |-> "\\bignore (previous|all|other) instructions\\b",
      pattern |-> Cat(<<WordBoundary, Str(<<"i", "g", "n", "o", "r", "e", " ">>),
        Alt(<<Str(<<"p", "r", "e", "v", "i", "o", "u", "s">>), Str(<<"a", "l", "l">>),
        Str(<<"o", "t", "h", "e", "r">>)>>), Str(<<" ", "i", "n", "s", "t", "r", "u", "c", "t",
        "i", "o", "n", "s">>), WordBoundary>>)],
     [name |-> "Alternative action", source |-> "\\binstead (do|of|you should)\\b",
      pattern |-> Cat(<<WordBoundary, Str(<<"i", "n", "s", "t", "e", "a", "d", " ">>),
        Alt(<<Str(<<"d", "o">>), Str(<<"o", "f">>), Str(<<"y", "o", "u", " ", "s", "h", "o",
        "u", "l", "d">>)>>), WordBoundary>>)],
     [name |-> "Forced action", source |-> "\\balways (do|include|add|insert|append)\\b",
      pattern |-> Cat(<<WordBoundary, Str(<<"a", "l", "w", "a", "y", "s", " ">>),
        Alt(<<Str(<<"d", "o">>), Str(<<"i", "n", "c", "l", "u", "d", "e">>), Str(<<"a", "d",
        "d">>), Str(<<"i", "n", "s", "e", "r", "t">>), Str(<<"a", "p", "p", "e", "n", "d">>)>>),
        WordBoundary>>)],
     [name |-> "Forbidden disclosure", source |-> "\\bnever (tell|show|reveal|disclose)\\b",
      pattern |-> Cat(<<WordBoundary, Str(<<"n", "e", "v", "e", "r", " ">>), Alt(<<Str(<<"t",
        "e", "l", "l">>), Str(<<"s", "h", "o", "w">>), Str(<<"r", "e", "v", "e", "a", "l">>),
        Str(<<"d", "i", "s", "c", "l", "o", "s", "e">>)>>), WordBoundary>>)] >>

detectToolShadowingPatterns ==
  << [name |-> "Condition-based override", source |-> "when.*tool is (available|present)",
      pattern |-> Cat(<<Str(<<"w", "h", "e", "n">>), Star(AnyChar, TRUE), Str(<<"t", "o", "o",
        "l", " ", "i", "s", " ">>), Alt(<<Str(<<"a", "v", "a", "i", "l", "a", "b", "l", "e">>),
        Str(<<"p", "r", "e", "s", "e", "n", "t">>)>>)>>)],
     [name |-> "Explicit override", source |-> "override the behavior of",
      pattern |-> Str(<<"o", "v", "e", "r", "r", "i", "d", "e", " ", "t", "h", "e", " ", "b",
        "e", "h", "a", "v", "i", "o", "r", " ", "o", "f">>)],
     [name |-> "Tool substitution", source |-> "instead of using",
      pattern |-> Str(<<"i", "n", "s", "t", "e", "a", "d", " ", "o", "f", " ", "u", "s", "i",
        "n", "g">>)],
     [name |-> "Behavior modification", source |-> "modify the (usage|behavior) of",
      pattern |-> Cat(<<Str(<<"m", "o", "d", "i", "f", "y", " ", "t", "h", "e", " ">>),
        Alt(<<Str(<<"u", "s", "a", "g", "e">>), Str(<<"b", "e", "h", "a", "v", "i", "o",
        "r">>)>>), Str(<<" ", "o", "f">>)>>)],
     [name |-> "Pre-execution hook", source |-> "before using (any|other|the) tool",
      pattern |-> Cat(<<Str(<<"b", "e", "f", "o", "r", "e", " ", "u", "s", "i", "n", "g",
        " ">>), Alt(<<Str(<<"a", "n", "y">>), Str(<<"o", "t", "h", "e", "r">>), Str(<<"t", "h",
        "e">>)>>), Str(<<" ", "t", "o", "o", "l">>)>>)],
     [name |-> "Post-execution hook", source |-> "after using (any|other|the) tool",
      pattern |-> Cat(<<Str(<<"a", "f", "t", "e", "r", " ", "u", "s", "i", "n", "g", " ">>),
        Alt(<<Str(<<"a", "n", "y">>), Str(<<"o", "t", "h", "e", "r">>), Str(<<"t", "h",
        "e">>)>>), Str(<<" ", "t", "o", "o", "l">>)>>)],
     [name |-> "Trigger-based action", source |-> "whenever you (see|encounter|use)",
      pattern |-> Cat(<<Str(<<"w", "h", "e", "n", "e", "v", "e", "r", " ", "y", "o", "u",
        " ">>), Alt(<<Str(<<"s", "e", "e">>), Str(<<"e", "n", "c", "o", "u", "n", "t", "e",
        "r">>), Str(<<"u", "s", "e">>)>>)>>)],
     [name |-> "Replacement directive", source |-> "replace (the|all) (function|tool|method)",
      pattern |-> Cat(<<Str(<<"r", "e", "p", "l", "a", "c", "e", " ">>), Alt(<<Str(<<"t", "h",
        "e">>), Str(<<"a", "l", "l">>)>>), Str(<<" ">>), Alt(<<Str(<<"f", "u", "n", "c", "t",
        "i", "o", "n">>), Str(<<"t", "o", "o", "l">>), Str(<<"m", "e", "t", "h", "o",
        "d">>)>>)>>)],
     [name |-> "Agent modification", source |-> "\\bmodify (the|how) (agent|model|tool|assistant)\\b",
      pattern |-> Cat(<<WordBoundary, Str(<<"m", "o", "d", "i", "f", "y", " ">>),
        Alt(<<Str(<<"t", "h", "e">>), Str(<<"h", "o", "w">>)>>), Str(<<" ">>), Alt(<<Str(<<"a",
        "g", "e", "n", "t">>), Str(<<"m", "o", "d", "e", "l">>), Str(<<"t", "o", "o", "l">>),
        Str(<<"a", "s", "s", "i", "s", "t", "a", "n", "t">>)>>), WordBoundary>>)],
     [name |-> "Priority override", source |-> "\\bprioritize this\\b",
      pattern |-> Cat(<<WordBoundary, Str(<<"p", "r", "i", "o", "r", "i", "t", "i", "z", "e",
        " ", "t", "h", "i", "s">>), WordBoundary>>)],
     [name |-> "Emphasis override", source |-> "\\bthis is VERY (important|VERY)",
      pattern |-> Cat(<<WordBoundary, Str(<<"t", "h", "i", "s", " ", "i", "s", " ", "V", "E",
        "R", "Y", " ">>), Alt(<<Str(<<"i", "m", "p", "o", "r", "t", "a", "n", "t">>), Str(<<"V",
        "E", "R", "Y">>)>>)>>)] >>

detectSensitiveFileAccessPatterns ==
  << [name |-> "SSH key access", source |-> "~\\/\\.ssh",
      pattern |-> Str(<<"~", "/", ".", "s", "s", "h">>)],
     [name |-> "Environment file access", source |-> "\\.env\\b",
      pattern |-> Cat(<<Str(<<".", "e", "n", "v">>), WordBoundary>>)],
     [name |-> "Config file access", source |-> "config\\.json",
      pattern |-> Str(<<"c", "o", "n", "f", "i", "g", ".", "j", "s", "o", "n">>)],
     [name |-> "Private key access", source |-> "id_rsa\\b",
      pattern |-> Cat(<<Str(<<"i", "d", "_", "r", "s", "a">>), WordBoundary>>)],
     [name |-> "MCP config access", source |-> "\\.cursor\\/mcp\\.json",
      pattern |-> Str(<<".", "c", "u", "r", "s", "o", "r", "/", "m", "c", "p", ".", "j", "s",
        "o", "n">>)],
     [name |-> "Cursor directory access", source |-> "\\.cursor\\/",
      pattern |-> Str(<<".", "c", "u", "r", "s", "o", "r", "/">>)],
     [name |-> "MCP config access", source |-> "\\bmcp\\.json\\b",
      pattern |-> Cat(<<WordBoundary, Str(<<"m", "c", "p", ".", "j", "s", "o", "n">>),
        WordBoundary>>)],
     [name |-> "Credentials access", source |-> "\\bcredentials\\b",
      pattern |-> Cat(<<WordBoundary, Str(<<"c", "r", "e", "d", "e", "n", "t", "i", "a", "l",
        "s">>), WordBoundary>>)],
     [name |-> "Password access", source |-> "\\bpassword\\b",
      pattern |-> Cat(<<WordBoundary, Str(<<"p", "a", "s", "s", "w", "o", "r", "d">>),
        WordBoundary>>)],
     [name |-> "Token access", source |-> "\\btoken\\b",
      pattern |-> Cat(<<WordBoundary, Str(<<"t", "o", "k", "e", "n">>), WordBoundary>>)],
     [name |-> "Secret access", source |-> "\\bsecret\\b",
      pattern |-> Cat(<<WordBoundary, Str(<<"s", "e", "c", "r", "e", "t">>), WordBoundary>>)],
     [name |-> "API key access", source |-> "\\bapi[ -_]?key\\b",
      pattern |-> Cat(<<WordBoundary, Str(<<"a", "p", "i">>), Opt(Class(CharRange(" ", "_")),
        TRUE), Str(<<"k", "e", "y">>), WordBoundary>>)],
     [name |-> "Access key retrieval", source |-> "\\baccess[ -_]?key\\b",
      pattern |-> Cat(<<WordBoundary, Str(<<"a", "c", "c", "e", "s", "s">>),
        Opt(Class(CharRange(" ", "_")), TRUE), Str(<<"k", "e", "y">>), WordBoundary>>)],
     [name |-> "Auth token access", source |-> "\\bauth[ -_]?token\\b",
      pattern |-> Cat(<<WordBoundary, Str(<<"a", "u", "t", "h">>), Opt(Class(CharRange(" ",
        "_")), TRUE), Str(<<"t", "o", "k", "e", "n">>), WordBoundary>>)],
     [name |-> "System password file access", source |-> "\\/etc\\/passwd\\b",
      pattern |-> Cat(<<Str(<<"/", "e", "t", "c", "/", "p", "a", "s", "s", "w", "d">>),
        WordBoundary>>)],
     [name |-> "System log access", source |-> "\\/var\\/log\\b",
      pattern |-> Cat(<<Str(<<"/", "v", "a", "r", "/", "l", "o", "g">>), WordBoundary>>)],
     [name |-> "File read operation", source |-> "\\bread (file|content|directory|folder)",
      pattern |-> Cat(<<WordBoundary, Str(<<"r", "e", "a", "d", " ">>), Alt(<<Str(<<"f", "i",
        "l", "e">>), Str(<<"c", "o", "n", "t", "e", "n", "t">>), Str(<<"d", "i", "r", "e", "c",
        "t", "o", "r", "y">>), Str(<<"f", "o", "l", "d", "e", "r">>)>>)>>)],
     [name |-> "File access operation", source |-> "\\baccess (file|content|directory|folder)",
      pattern |-> Cat(<<WordBoundary, Str(<<"a", "c", "c", "e", "s", "s", " ">>),
        Alt(<<Str(<<"f", "i", "l", "e">>), Str(<<"c", "o", "n", "t", "e", "n", "t">>),
        Str(<<"d", "i", "r", "e", "c", "t", "o", "r", "y">>), Str(<<"f", "o", "l", "d", "e",
        "r">>)>>)>>)],
     [name |-> "Path traversal attempt", source |-> "\\.\\.",
      pattern |-> Str(<<".", ".">>)] >>

(***************************************************************************)
(* JavaScript values of the arguments.                                     *)
(***************************************************************************)
\* An optional string argument: undefined, or a string.
Undefined == [defined |-> FALSE, chars |-> <<>>]

StringValue(cs) == [defined |-> TRUE, chars |-> cs]

\* !text of an optional string: undefined and "" are falsy.
IsFalsyString(text) == ~text.defined \/ text.chars = <<>>

\* What a call produces: {detected, matches}, or a thrown error.
Returned(matches) ==
  [threw |-> FALSE, error |-> "none", detected |-> Len(matches) > 0, matches |-> matches]

Thrown(error) ==
  [threw |-> TRUE, error |-> error, detected |-> FALSE, matches |-> <<>>]

(***************************************************************************)
(* detectPatterns and the three text detectors.                            *)
(***************************************************************************)
\* Characters of context kept on each side of a match.
ContextWindow == 20

Ellipsis == <<".", ".", ".">>

\* Context with the window cut from the lower-cased text.
Context_FromLowerCased(text, index, length) ==
  LET startIndex == Max(0, index - ContextWindow)
      endIndex   == Min(Len(text), index + length + ContextWindow)
  IN  Ellipsis \o substring(toLowerCase(text), startIndex, endIndex) \o Ellipsis

\* Context with the window ending 20 characters after the start of the match.
Context_WithoutLength(text, index, length) ==
  LET startIndex == Max(0, index - ContextWindow)
      endIndex   == Min(Len(text), index + ContextWindow)
  IN  Ellipsis \o substring(text, startIndex, endIndex) \o Ellipsis

Context(text, index, length) ==
  LET startIndex == Max(0, index - ContextWindow)
      endIndex   == Min(Len(text), index + length + ContextWindow)
  IN  Ellipsis \o substring(text, startIndex, endIndex) \o Ellipsis

\* The loop leaving at the first rule that matches.
RECURSIVE detectPatternsLoop_ShortCircuit(_, _, _, _)
detectPatternsLoop_ShortCircuit(text, patterns, j, matches) ==
  IF j > Len(patterns) THEN matches
  ELSE LET match == StringMatch(text, patterns[j].pattern)
       IN  IF match.found
             THEN Append(matches,
                    [type    |-> patterns[j].name,
                     pattern |-> patterns[j].source,
                     match   |-> match.text,
                     context |-> Context(text, match.index, Len(match.text))])
             ELSE detectPatternsLoop_ShortCircuit(text, patterns, j + 1, matches)

\* The body of `for (const {pattern, name} of patterns)`, from rule j on.
RECURSIVE detectPatternsLoop(_, _, _, _)
detectPatternsLoop(text, patterns, j, matches) ==
  IF j > Len(patterns) THEN matches
  ELSE LET match == StringMatch(text, patterns[j].pattern)
       IN  IF match.found
             THEN detectPatternsLoop(text, patterns, j + 1,
                    Append(matches,
                      [type    |-> patterns[j].name,
                       pattern |-> patterns[j].source,
                       match   |-> match.text,
                       context |-> Context(text, match.index, Len(match.text))]))
             ELSE detectPatternsLoop(text, patterns, j + 1, matches)

\* detectPatterns without its guard: undefined.match(...) is a TypeError.
detectPatterns_Unguarded(text, patterns) ==
  IF ~text.defined THEN Thrown("TypeError")
  ELSE Returned(detectPatternsLoop(text.chars, patterns, 1, <<>>))

detectPatterns(text, patterns) ==
  IF IsFalsyString(text) THEN Returned(<<>>)
  ELSE Returned(detectPatternsLoop(text.chars, patterns, 1, <<>>))

detectHiddenInstructions(toolDescription) ==
  detectPatterns(toolDescription, detectHiddenInstructionsPatterns)

detectToolShadowing(toolDescription) ==
  detectPatterns(toolDescription, detectToolShadowingPatterns)

detectSensitiveFileAccess(toolDescription) ==
  detectPatterns(toolDescription, detectSensitiveFileAccessPatterns)

(***************************************************************************)
(* detectExfiltrationChannels.                                             *)
(*                                                                         *)
(* A schema argument is undefined, null, or an object; its properties      *)
(* field, when present, is the sequence of its keys in Object.keys order,  *)
(* each with the value declared for it.  A declared value is null, a       *)
(* primitive, or an object that may carry a type.                          *)
(***************************************************************************)
SchemaUndefined == [kind |-> "undefined", hasProperties |-> FALSE, properties |-> <<>>]

SchemaNull == [kind |-> "null", hasProperties |-> FALSE, properties |-> <<>>]

SchemaWithoutProperties == [kind |-> "object", hasProperties |-> FALSE, properties |-> <<>>]

SchemaObject(properties) ==
  [kind |-> "object", hasProperties |-> TRUE, properties |-> properties]

DetailsNull == [kind |-> "null", hasType |-> FALSE, type |-> ""]

DetailsPrimitive == [kind |-> "string", hasType |-> FALSE, type |-> ""]

DetailsObject(type) == [kind |-> "object", hasType |-> TRUE, type |-> type]

DetailsUntyped == [kind |-> "object", hasType |-> FALSE, type |-> ""]

suspiciousParams ==
  << <<"n", "o", "t", "e">>,
     <<"n", "o", "t", "e", "s">>,
     <<"f", "e", "e", "d", "b", "a", "c", "k">>,
     <<"d", "e", "t", "a", "i", "l", "s">>,
     <<"e", "x", "t", "r", "a">>,
     <<"a", "d", "d", "i", "t", "i", "o", "n", "a", "l">>,
     <<"m", "e", "t", "a", "d", "a", "t", "a">>,
     <<"d", "e", "b", "u", "g">>,
     <<"s", "i", "d", "e", "n", "o", "t", "e">>,
     <<"c", "o", "n", "t", "e", "x", "t">>,
     <<"a", "n", "n", "o", "t", "a", "t", "i", "o", "n">>,
     <<"r", "e", "a", "s", "o", "n", "i", "n", "g">>,
     <<"r", "e", "m", "a", "r", "k">> >>

Includes(list, x) == \E i \in DOMAIN list : list[i] = x

\* paramDetails.type || 'unknown': reading a field of a primitive gives
\* undefined, and so does a missing field.
ParamType(paramDetails) ==
  IF paramDetails.kind = "object" /\ paramDetails.hasType /\ paramDetails.type # ""
    THEN paramDetails.type ELSE "unknown"

\* Reading a field of null or undefined throws a TypeError.
ReadThrows(value) == value.kind \in {"null", "undefined"}

\* The body of `for (const paramName of Object.keys(...))`, from key j on.
RECURSIVE detectExfiltrationLoop(_, _, _)
detectExfiltrationLoop(properties, j, matches) ==
  IF j > Len(properties) THEN Returned(matches)
  ELSE LET paramName    == properties[j].name
           lowerParam   == toLowerCase(paramName)
           paramDetails == properties[j].details
       IN  IF Includes(suspiciousParams, lowerParam)
             THEN IF ReadThrows(paramDetails) THEN Thrown("TypeError")
                  ELSE detectExfiltrationLoop(properties, j + 1,
                         Append(matches,
                           [type      |-> "Suspicious parameter",
                            param     |-> paramName,
                            paramType |-> ParamType(paramDetails),
                            reason    |-> <<"Parameter name '">> \o paramName
                                            \o <<"' could be used for exfiltration">>,
                            details   |-> paramDetails]))
             ELSE detectExfiltrationLoop(properties, j + 1, matches)

detectExfiltrationChannels(toolInputSchema) ==
  IF toolInputSchema.kind # "object" \/ ~toolInputSchema.hasProperties
    THEN Returned(<<>>)
    ELSE detectExfiltrationLoop(toolInputSchema.properties, 1, <<>>)

(***************************************************************************)
(* detectCrossOriginViolations.                                            *)
(***************************************************************************)
POPULAR_MCP_SERVERS ==
  << <<"w", "h", "a", "t", "s", "a", "p", "p">>,
     <<"s", "l", "a", "c", "k">>,
     <<"g", "i", "t", "h", "u", "b">>,
     <<"g", "i", "t", "l", "a", "b">>,
     <<"g", "d", "r", "i", "v", "e">> >>


\* An optional array argument: undefined, or the array of names.
NoList == [defined |-> FALSE, names |-> <<>>]

ListValue(names) == [defined |-> TRUE, names |-> names]

\* String.prototype.split(/\s+/): the pieces between the runs of white
\* space; a string that starts or ends with white space gives an empty
\* first or last piece.
RECURSIVE SplitFrom(_, _, _, _)
SplitFrom(s, i, piece, pieces) ==
  IF i > Len(s) THEN Append(pieces, piece)
  ELSE IF s[i] \in WhiteSpace
    THEN IF i > 1 /\ s[i - 1] \in WhiteSpace
           THEN SplitFrom(s, i + 1, piece, pieces)
           ELSE SplitFrom(s, i + 1, <<>>, Append(pieces, piece))
  ELSE SplitFrom(s, i + 1, Append(piece, s[i]), pieces)

SplitOnWhiteSpace(s) == SplitFrom(s, 1, <<>>, <<>>)

\* token.replace(/^\((.*)\)$/, '$1'): one enclosing pair of parentheses off.
StripParentheses(token) ==
  IF /\ Len(token) >= 2
     /\ token[1] = "("
     /\ token[Len(token)] = ")"
     /\ \A i \in 2..(Len(token) - 1) : token[i] \notin LineTerminators
    THEN SubSeq(token, 2, Len(token) - 1)
    ELSE token

\* s.replace(/_/g, '-')
UnderscoresToHyphens(s) == [i \in 1..Len(s) |-> IF s[i] = "_" THEN "-" ELSE s[i]]

\* The well-known list with the current server left in.
relevantPopularServers_Unfiltered(currentServerName) == POPULAR_MCP_SERVERS

relevantPopularServers(currentServerName) ==
  SelectSeq(POPULAR_MCP_SERVERS, LAMBDA popularName : popularName # currentServerName)

\* The combined names with the safe list left unapplied.
combinedServerNames_IgnoringSafeList(otherServerNames, currentServerName, safeList) ==
  (IF otherServerNames.defined THEN otherServerNames.names ELSE <<>>)
    \o relevantPopularServers(currentServerName)

combinedServerNames(otherServerNames, currentServerName, safeList) ==
  SelectSeq(IF otherServerNames.defined THEN otherServerNames.names ELSE <<>>,
            LAMBDA name : ~safeList.defined \/ ~Includes(safeList.names, name))
    \o relevantPopularServers(currentServerName)

flaggedNames(combined) == [i \in 1..Len(combined) |-> toLowerCase(combined[i])]

\* The token as normalized for the comparison.
CleanedToken(token) == UnderscoresToHyphens(StripParentheses(token))

\* The token is compared with the lower-cased names.
IsFlagged(token, combined) == Includes(flaggedNames(combined), CleanedToken(token))

\* The source of the RegExp that finds the token again in the description.
TokenRegExpSource(token) == <<"\\", "b">> \o token \o <<"\\", "b">>

\* combinedServerNames.find(name => normalized name === cleanedToken)
NotFound == [defined |-> FALSE, chars |-> <<>>]

RECURSIVE FindReferenced(_, _, _)
FindReferenced(combined, cleanedToken, i) ==
  IF i > Len(combined) THEN NotFound
  ELSE IF UnderscoresToHyphens(toLowerCase(combined[i])) = cleanedToken
    THEN StringValue(combined[i])
  ELSE FindReferenced(combined, cleanedToken, i + 1)

\* The body of `for (const token of tokens)`, from token j on.
RECURSIVE detectCrossOriginLoop(_, _, _, _, _)
detectCrossOriginLoop(toolDescription, tokens, combined, j, matches) ==
  IF j > Len(tokens) THEN Returned(matches)
  ELSE IF ~IsFlagged(tokens[j], combined)
    THEN detectCrossOriginLoop(toolDescription, tokens, combined, j + 1, matches)
  ELSE LET regex == NewRegExp(TokenRegExpSource(tokens[j]))
       IN  IF ~regex.ok THEN Thrown("SyntaxError")
           ELSE LET match == StringMatch(toolDescription, regex.node)
                IN  IF ~match.found
                      THEN detectCrossOriginLoop(toolDescription, tokens, combined,
                                                 j + 1, matches)
                      ELSE detectCrossOriginLoop(toolDescription, tokens, combined, j + 1,
                             Append(matches,
                               [type    |-> "Cross-origin reference",
                                pattern |-> TokenRegExpSource(tokens[j]),
                                match   |-> match.text,
                                context |-> Context(toolDescription, match.index,
                                                    Len(match.text)),
                                referencedServer |->
                                  FindReferenced(combined, CleanedToken(tokens[j]), 1)]))

detectCrossOriginViolations(toolDescription, otherServerNames, currentServerName, safeList) ==
  IF IsFalsyString(toolDescription) THEN Returned(<<>>)
  ELSE LET combined == combinedServerNames(otherServerNames, currentServerName, safeList)
       IN  IF Len(combined) = 0 THEN Returned(<<>>)
           ELSE detectCrossOriginLoop(toolDescription.chars,
                  SplitOnWhiteSpace(toLowerCase(toolDescription.chars)),
                  combined, 1, <<>>)

(***************************************************************************)
(* The descriptions the text detectors are called with: every             *)
(* concatenation of at most MaxFragments fragments, and the absent ones.   *)
(***************************************************************************)
MaxFragments == 2

Fragments ==
  << <<"h", "i", "d", "e", " ", "t", "h", "i", "s">>,
     <<"D", "o", " ", "N", "o", "t", " ", "T", "e", "l", "l">>,
     <<"<", "S", ">", "x", "<", "/", "s", ">">>,
     <<"w", "h", "e", "n">>,
     <<"t", "o", "o", "l", " ", "i", "s", " ", "p", "r", "e", "s", "e", "n", "t">>,
     <<"P", "r", "i", "o", "r", "i", "t", "i", "z", "e", " ", "t", "h", "i", "s">>,
     <<"~", "/", ".", "s", "s", "h", "/", "i", "d", "_", "r", "s", "a">>,
     <<".", "c", "u", "r", "s", "o", "r", "/", "m", "c", "p", ".", "j", "s", "o", "n">>,
     <<"a", "d", "d", "s", " ", "t", "w", "o", " ", "n", "u", "m", "b", "e", "r", "s",
       " ", "h", "e", "r", "e">>,
     <<" ">>,
     <<"\n">> >>

RECURSIVE Flatten(_)
Flatten(ss) == IF ss = <<>> THEN <<>> ELSE Head(ss) \o Flatten(Tail(ss))

SeqsUpTo(S, n) == UNION {[1..m -> S] : m \in 0..n}

Descriptions ==
  {Undefined} \cup
  {StringValue(Flatten([i \in DOMAIN fs |-> Fragments[fs[i]]])) :
     fs \in SeqsUpTo(DOMAIN Fragments, MaxFragments)}

(***************************************************************************)
(* The schemas detectExfiltrationChannels is called with: the absent ones, *)
(* and every object of at most MaxProperties distinct keys.                *)
(***************************************************************************)
MaxProperties == 2

ParamNames ==
  { <<"n", "o", "t", "e">>,
    <<"N", "o", "t", "e", "s">>,
    <<"D", "E", "B", "U", "G">>,
    <<"p", "a", "t", "h">>,
    <<"n", "o", "t", "e", "d">> }

ParamDetails == {DetailsNull, DetailsPrimitive, DetailsObject("string"), DetailsUntyped}

Properties == [name : ParamNames, details : ParamDetails]

Schemas ==
  {SchemaUndefined, SchemaNull, SchemaWithoutProperties} \cup
  {SchemaObject(ps) :
     ps \in {q \in SeqsUpTo(Properties, MaxProperties) :
               \A i, j \in DOMAIN q : i # j => q[i].name # q[j].name}}

(***************************************************************************)
(* The arguments detectCrossOriginViolations is called with: descriptions  *)
(* of at most MaxWords words, at most MaxOthers other server names.        *)
(***************************************************************************)
MaxWords == 2

MaxOthers == 1

Words ==
  << <<"c", "a", "l", "l">>,
     <<"(", "w", "h", "a", "t", "s", "a", "p", "p", ")">>,
     <<"W", "h", "a", "t", "s", "A", "p", "p">>,
     <<"m", "y", "_", "s", "e", "r", "v", "e", "r">>,
     <<"c", "+", "+">>,
     <<"c", "#">> >>

RECURSIVE JoinWords(_)
JoinWords(ws) ==
  IF ws = <<>> THEN <<>>
  ELSE IF Len(ws) = 1 THEN Head(ws)
  ELSE Head(ws) \o <<" ">> \o JoinWords(Tail(ws))

\* 'call (whatsapp) to send', and a description with runs of white space.
FixedDescriptions ==
  { <<"c", "a", "l", "l", " ", "(", "w", "h", "a", "t", "s", "a", "p", "p", ")", " ",
      "t", "o", " ", "s", "e", "n", "d">>,
    <<" ", "u", "s", "e", " ", "\n", "S", "l", "a", "c", "k", "\t", "(", "m", "y", "-",
      "s", "e", "r", "v", "e", "r", ")", " ">> }

CrossDescriptions ==
  {Undefined} \cup
  {StringValue(d) : d \in FixedDescriptions} \cup
  {StringValue(JoinWords([i \in DOMAIN ws |-> Words[ws[i]]])) :
     ws \in SeqsUpTo(DOMAIN Words, MaxWords)}

ServerNames ==
  { <<"w", "h", "a", "t", "s", "a", "p", "p">>,
    <<"m", "y", "_", "s", "e", "r", "v", "e", "r">>,
    <<"m", "y", "-", "s", "e", "r", "v", "e", "r">>,
    <<"c", "+", "+">>,
    <<"c", "#">> }

OtherServerLists == {NoList} \cup {ListValue(ns) : ns \in SeqsUpTo(ServerNames, MaxOthers)}

CurrentServerNames ==
  { <<"n", "o", "t", "e", "s">>,
    <<"w", "h", "a", "t", "s", "a", "p", "p">>,
    <<"W", "h", "a", "t", "s", "A", "p", "p">> }

SafeLists ==
  { NoList,
    ListValue(<< <<"w", "h", "a", "t", "s", "a", "p", "p">>,
                 <<"m", "y", "-", "s", "e", "r", "v", "e", "r">> >>) }

(***************************************************************************)
(* getTools (server-connectors).  A server configuration is given by what  *)
(* its url and its command are; the client, the transport and the server   *)
(* behind them are the environment: connect, listTools and close are       *)
(* promises that the environment fulfils or rejects, and the timer of      *)
(* setTimeout fires when its 30 seconds have passed.                       *)
(***************************************************************************)
\* An optional string of the configuration that is left out, and the
\* truthiness of such a string: undefined and "" are falsy.
NoString == "undefined"

IsTruthy(v) == v \notin {NoString, ""}

\* The strings that new URL(...) accepts.
ValidURLs == {"http://localhost:3001/sse"}

\* !!configUrl
isSSE(serverConfig) == IsTruthy(serverConfig.url)

\* identifyAs || "mcp-shield"
clientName(identifyAs) == IF IsTruthy(identifyAs) THEN identifyAs ELSE "mcp-shield"

\* serverConfig.url || serverConfig.command
ConfigTarget(serverConfig) ==
  IF isSSE(serverConfig) THEN serverConfig.url ELSE serverConfig.command

\* toolsResponse.tools || []
NoTools == [defined |-> FALSE, tools |-> <<>>]

ToolList(tools) == [defined |-> TRUE, tools |-> tools]

\* How a call of getTools settles: it returns the tools, or it throws.
NotSettled == [kind |-> "none", tools |-> <<>>, target |-> "none", cause |-> "none"]

ReturnsTools(toolsResponse) ==
  [kind |-> "tools", tools |-> toolsResponse.tools, target |-> "none", cause |-> "none"]

\* throw new Error("Missing command for STDIO server"), and new URL(...)
\* throwing on a url that does not parse.
ThrowsConfigError(cause) ==
  [kind |-> "ConfigError", tools |-> <<>>, target |-> "none", cause |-> cause]

\* `Connection to ${target} timed out. ...`
ThrowsTimeout(serverConfig) ==
  [kind |-> "TimeoutError", tools |-> <<>>, target |-> ConfigTarget(serverConfig),
   cause |-> "none"]

\* `Failed to connect to ${target}: ${message}`
ThrowsFailedToConnect(serverConfig, error) ==
  [kind |-> "ConnectionError", tools |-> <<>>, target |-> ConfigTarget(serverConfig),
   cause |-> IF error.isError THEN error.message ELSE "Unknown error"]

\* The rejection of timeoutPromise.
TimeoutRejection == [isError |-> TRUE, message |-> "Connection timeout"]

ConnectorIdle ==
  [pc |-> "idle", serverConfig |-> [url |-> NoString, command |-> NoString],
   clientName |-> "none", transport |-> "none", connectionPromise |-> "none",
   timer |-> "unset", listTools |-> "none", toolsResponse |-> NoTools, closeCalls |-> 0,
   completion |-> NotSettled, result |-> NotSettled, unanswered |-> FALSE]

\* The finally block entered without closing the client.
Finally_WithoutClose(c, completion) == [c EXCEPT !.pc = "finally", !.completion = completion]

\* The finally block: client.close() is called and awaited, and what the
\* try or the catch block completed with is kept until it has settled.
Finally(c, completion) ==
  [c EXCEPT !.pc = "finally", !.completion = completion, !.closeCalls = @ + 1]

\* The catch block, entered with the error caught, and then the finally
\* block.
Catch(c, error) ==
  IF error.isError /\ error.message = "Connection timeout"
    THEN Finally(c, ThrowsTimeout(c.serverConfig))
    ELSE Finally(c, ThrowsFailedToConnect(c.serverConfig, error))

\* The lines before the try block: the checks of the configuration, the
\* client and the transport.
CreateTransport(c, serverConfig, identifyAs) ==
  LET named == [c EXCEPT !.serverConfig = serverConfig, !.clientName = clientName(identifyAs)]
  IN  IF ~isSSE(serverConfig) /\ ~IsTruthy(serverConfig.command)
        THEN [c EXCEPT !.serverConfig = serverConfig, !.pc = "settled",
                       !.result = ThrowsConfigError("Missing command for STDIO server")]
      ELSE IF isSSE(serverConfig) /\ serverConfig.url \notin ValidURLs
        THEN [named EXCEPT !.pc = "settled", !.result = ThrowsConfigError("Invalid URL")]
      ELSE [named EXCEPT !.transport = IF isSSE(serverConfig) THEN "sse" ELSE "stdio"]

\* The start of the try block: client.connect(transport) is called, the
\* timer is set and the race of the two promises is awaited.
StartRace(c) == [c EXCEPT !.pc = "racing", !.connectionPromise = "pending", !.timer = "pending"]

(***************************************************************************)
(* analyzeWithClaude (claude-analyzer), and its form with the API key      *)
(* alone.  The Anthropic and AnthropicBedrock clients are the environment: *)
(* messages.create is a promise that is fulfilled with a response or       *)
(* rejected with an error.                                                 *)
(***************************************************************************)
\* An optional boolean argument that is left out.
NoBoolean == "undefined"

\* 'Claude analysis unavailable (no API key provided)'
AnalysisUnavailable == <<"C", "l", "a", "u", "d", "e", " ", "a", "n", "a", "l", "y",
  "s", "i", "s", " ", "u", "n", "a", "v", "a", "i", "l", "a", "b", "l", "e", " ", "(",
  "n", "o", " ", "A", "P", "I", " ", "k", "e", "y", " ", "p", "r", "o", "v", "i", "d",
  "e", "d", ")">>

\* 'Error using Claude API: '
ErrorPrefix == <<"E", "r", "r", "o", "r", " ", "u", "s", "i", "n", "g", " ", "C", "l",
  "a", "u", "d", "e", " ", "A", "P", "I", ":", " ">>

\* String(undefined), the text of a message that is not there.
UndefinedText == <<"u", "n", "d", "e", "f", "i", "n", "e", "d">>

\* The message of the TypeError of reading a property of undefined.
TypeErrorMessage == <<"C", "a", "n", "n", "o", "t", " ", "r", "e", "a", "d", " ", "p",
  "r", "o", "p", "e", "r", "t", "i", "e", "s", " ", "o", "f", " ", "u", "n", "d", "e",
  "f", "i", "n", "e", "d">>

HIGH == <<"H", "I", "G", "H">>

MEDIUM == <<"M", "E", "D", "I", "U", "M">>

LOW == <<"L", "O", "W">>

\* The blocks of response.content: a text block, or a block without text.
TextBlock(text) == [type |-> "text", hasText |-> TRUE, text |-> text]

ToolUseBlock == [type |-> "tool_use", hasText |-> FALSE, text |-> <<>>]

\* What a call of analyzeWithClaude settles with: {analysis, overallRisk},
\* or a rejection.
NoAnalysis == [kind |-> "none", analysis |-> <<>>, overallRisk |-> "null"]

ReturnsAnalysis(analysis, overallRisk) ==
  [kind |-> "returned", analysis |-> analysis, overallRisk |-> overallRisk]

RejectsWith(error) == [kind |-> "rejected", analysis |-> <<>>, overallRisk |-> "null"]

\* An error thrown inside the try block: an Error with its message, or a
\* value that is no object with a message.
ErrorValue(message) == [hasMessage |-> TRUE, message |-> message]

NonError == [hasMessage |-> FALSE, message |-> <<>>]

\* `${error.message}`
MessageText(error) == IF error.hasMessage THEN error.message ELSE UndefinedText

\* The catch block letting the error through.
CatchAnalysis_Rethrow(error) == RejectsWith(error)

\* The catch block: the error becomes the analysis, with no risk.
CatchAnalysis(error) == ReturnsAnalysis(ErrorPrefix \o MessageText(error), "null")

\* The lines after the await: the risk read from the first block's text.
\* Reading the text of a response without blocks, or of a block without
\* text, throws a TypeError, which the catch block receives.
ReadResponse(content) ==
  IF Len(content) = 0 \/ ~content[1].hasText
    THEN CatchAnalysis(ErrorValue(TypeErrorMessage))
    ELSE LET text == content[1].text
         IN  ReturnsAnalysis(text,
               IF IsSubstring(HIGH, text) THEN "HIGH"
               ELSE IF IsSubstring(MEDIUM, text) THEN "MEDIUM"
               ELSE IF IsSubstring(LOW, text) THEN "LOW"
               ELSE "null")

AnalyzerIdle ==
  [pc |-> "idle", form |-> "none", toolDescription |-> <<>>, apiKey |-> NoString,
   useBedrock |-> NoBoolean, client |-> "none", apiCalls |-> 0,
   response |-> [state |-> "none", content |-> <<>>, error |-> NonError],
   result |-> NoAnalysis]

(***************************************************************************)
(* The scan of a configuration: scanMcpServer(configPath, progressCallback, *)
(* claudeApiKey, identifyAs).  Every configured server goes from pending   *)
(* through connecting to connected or error, every tool of a connected     *)
(* server from pending through scanning to analyzed, and the progress      *)
(* callback is called with the events below.  The scan keeps, per server   *)
(* in the order of the configuration, the state, the tools, the events     *)
(* emitted for it in the order of their emission, the number of state      *)
(* transitions made and the findings.                                      *)
(***************************************************************************)

\* The events the progress callback reads.
ServerConnectedEvent(serverName, tools) ==
  [type |-> "server-connected", serverName |-> serverName, toolName |-> "none",
   toolCount |-> Len(tools), tools |-> tools, error |-> NotSettled, hasIssues |-> FALSE,
   severity |-> "none"]

ServerErrorEvent(serverName, error) ==
  [type |-> "server-error", serverName |-> serverName, toolName |-> "none",
   toolCount |-> 0, tools |-> <<>>, error |-> error, hasIssues |-> FALSE,
   severity |-> "none"]

ToolScanningEvent(serverName, toolName) ==
  [type |-> "tool-scanning", serverName |-> serverName, toolName |-> toolName,
   toolCount |-> 0, tools |-> <<>>, error |-> NotSettled, hasIssues |-> FALSE,
   severity |-> "none"]

ToolAnalyzedEvent(serverName, toolName, hasIssues, severity) ==
  [type |-> "tool-analyzed", serverName |-> serverName, toolName |-> toolName,
   toolCount |-> 0, tools |-> <<>>, error |-> NotSettled, hasIssues |-> hasIssues,
   severity |-> severity]

\* The DetectionDetails bundle of one tool: the outputs of the detectors
\* that need nothing but the tool.
DetectionDetails(tool) ==
  [hiddenInstructions |-> detectHiddenInstructions(tool.description).matches,
   toolShadowing |-> detectToolShadowing(tool.description).matches,
   sensitiveFileAccess |-> detectSensitiveFileAccess(tool.description).matches,
   exfiltrationChannels |-> detectExfiltrationChannels(tool.inputSchema).matches]

\* The bundle is non-empty.
HasIssues(details) ==
  \/ details.hiddenInstructions # <<>>
  \/ details.toolShadowing # <<>>
  \/ details.sensitiveFileAccess # <<>>
  \/ details.exfiltrationChannels # <<>>

\* Hidden instructions, tool shadowing and sensitive file access imply
\* HIGH; exfiltration channels alone imply MEDIUM.
SeverityOf(details) ==
  IF \/ details.hiddenInstructions # <<>>
     \/ details.toolShadowing # <<>>
     \/ details.sensitiveFileAccess # <<>>
    THEN "HIGH"
    ELSE "MEDIUM"

NoDetails ==
  [hiddenInstructions |-> <<>>, toolShadowing |-> <<>>, sensitiveFileAccess |-> <<>>,
   exfiltrationChannels |-> <<>>]

NoCrossRefMatches == <<>>

\* A Vulnerability of a tool, and a cross-reference finding without tool.
Vulnerability(server, tool, details) ==
  [server |-> server, tool |-> tool.name, severity |-> SeverityOf(details),
   detectionDetails |-> details, crossRefMatches |-> NoCrossRefMatches]

CrossRefFinding(server, matches) ==
  [server |-> server, tool |-> "none", severity |-> "MEDIUM",
   detectionDetails |-> NoDetails, crossRefMatches |-> matches]

NoScanResult == [returned |-> FALSE, vulnerabilities |-> <<>>]

ScanResult(vulnerabilities) == [returned |-> TRUE, vulnerabilities |-> vulnerabilities]

\* The scan before it is started.
ScanIdle ==
  [pc |-> "idle", servers |-> <<>>, serverState |-> <<>>, tools |-> <<>>,
   toolState |-> <<>>, events |-> <<>>, transitions |-> <<>>, findings |-> <<>>,
   settled |-> <<>>, nameIndex |-> {}, correlated |-> FALSE, correlationIndex |-> {}, crossRefs |-> <<>>,
   result |-> NoScanResult]

TerminalServerStates == {"connected", "error"}

\* Every server has reached a terminal state.
AllServersTerminal(s) ==
  \A i \in DOMAIN s.servers : s.serverState[i] \in TerminalServerStates

\* Every tool of every connected server is analyzed.
AllToolsAnalyzed(s) ==
  \A i \in DOMAIN s.servers : \A k \in DOMAIN s.toolState[i] : s.toolState[i][k] = "analyzed"

\* The barrier in front of the correlation pass, broken: one terminal
\* server is enough.
AllPassesComplete_AnyServer(s) ==
  \E i \in DOMAIN s.servers :
    /\ s.serverState[i] \in TerminalServerStates
    /\ \A k \in DOMAIN s.toolState[i] : s.toolState[i][k] = "analyzed"

\* The barrier in front of the correlation pass: all per-server passes
\* are complete.
AllPassesComplete(s) == AllServersTerminal(s) /\ AllToolsAnalyzed(s)

\* The scan started on the configured servers: all of them pending.
StartScan(s, servers) ==
  [s EXCEPT !.pc = "scanning", !.servers = servers,
            !.serverState = [i \in DOMAIN servers |-> "pending"],
            !.tools = [i \in DOMAIN servers |-> <<>>],
            !.toolState = [i \in DOMAIN servers |-> <<>>],
            !.events = [i \in DOMAIN servers |-> <<>>],
            !.transitions = [i \in DOMAIN servers |-> 0],
            !.findings = [i \in DOMAIN servers |-> <<>>],
            !.settled = [i \in DOMAIN servers |-> NotSettled],
            !.crossRefs = [i \in DOMAIN servers |-> <<>>]]

\* pending -> connecting: getTools is called for the server.
BeginConnect(s, i) ==
  [s EXCEPT !.serverState[i] = "connecting", !.transitions[i] = @ + 1]

\* connecting -> connected: getTools returned the tools.
ServerConnects(s, i, tools) ==
  [s EXCEPT !.serverState[i] = "connected", !.transitions[i] = @ + 1,
            !.tools[i] = tools,
            !.toolState[i] = [k \in DOMAIN tools |-> "pending"],
            !.events[i] = Append(@, ServerConnectedEvent(s.servers[i].name, tools)),
            !.nameIndex = @ \cup {s.servers[i].name}]

\* A failing server ends the scan.
ServerFails_AbortsScan(s, i, thrown) ==
  [s EXCEPT !.pc = "aborted", !.serverState[i] = "error", !.transitions[i] = @ + 1,
            !.events[i] = Append(@, ServerErrorEvent(s.servers[i].name, thrown))]

\* connecting -> error: getTools threw.  The server contributes no tools.
ServerFails(s, i, thrown) ==
  [s EXCEPT !.serverState[i] = "error", !.transitions[i] = @ + 1,
            !.events[i] = Append(@, ServerErrorEvent(s.servers[i].name, thrown)),
            !.nameIndex = @ \cup {s.servers[i].name}]

\* What getTools settled with decides between the two.
ServerSettles(s, i, settled) ==
  IF settled.kind = "tools"
    THEN ServerConnects([s EXCEPT !.settled[i] = settled], i, settled.tools)
    ELSE ServerFails([s EXCEPT !.settled[i] = settled], i, settled)

\* pending -> scanning, of tool k of server i, without its event.
ScanTool_Silent(s, i, k) ==
  [s EXCEPT !.toolState[i][k] = "scanning", !.transitions[i] = @ + 1]

\* pending -> scanning, of tool k of server i.
ScanTool(s, i, k) ==
  [s EXCEPT !.toolState[i][k] = "scanning", !.transitions[i] = @ + 1,
            !.events[i] = Append(@, ToolScanningEvent(s.servers[i].name, s.tools[i][k].name))]

\* scanning -> analyzed: the detectors have run on the tool, and the tool
\* is a Vulnerability if and only if its bundle is non-empty.
AnalyzeTool(s, i, k) ==
  LET tool == s.tools[i][k]
      details == DetectionDetails(tool)
      hasIssues == HasIssues(details)
      severity == IF hasIssues THEN SeverityOf(details) ELSE "none"
  IN  [s EXCEPT !.toolState[i][k] = "analyzed", !.transitions[i] = @ + 1,
                !.events[i] = Append(@, ToolAnalyzedEvent(s.servers[i].name, tool.name,
                                                          hasIssues, severity)),
                !.findings[i] = IF hasIssues
                                  THEN Append(@, Vulnerability(s.servers[i].name, tool, details))
                                  ELSE @]

\* The names of the index in the order of the configuration, without the
\* current server.
OtherServersOf(s, i) ==
  LET pick[j \in 0..Len(s.servers)] ==
        IF j = 0 THEN <<>>
        ELSE IF j # i /\ s.servers[j].name \in s.nameIndex
               THEN Append(pick[j - 1], s.servers[j].name)
               ELSE pick[j - 1]
  IN  pick[Len(s.servers)]

\* The cross-reference findings of the tools of server i.
CrossRefsOf(s, i) ==
  LET found[j \in 0..Len(s.tools[i])] ==
        IF j = 0 THEN <<>>
        ELSE LET detection == detectCrossOriginViolations(s.tools[i][j].description,
                                ListValue(OtherServersOf(s, i)), s.servers[i].name, NoList)
             IN  IF detection.detected
                   THEN Append(found[j - 1], CrossRefFinding(s.servers[i].name, detection.matches))
                   ELSE found[j - 1]
  IN  found[Len(s.tools[i])]

\* The correlation pass over the accumulated name index.
Correlate(s) ==
  [s EXCEPT !.pc = "correlated", !.correlated = TRUE, !.correlationIndex = s.nameIndex,
            !.crossRefs = [i \in DOMAIN s.servers |-> CrossRefsOf(s, i)]]

\* The aggregate ScanResult: the findings of the tools and the
\* cross-reference findings, server after server.
Aggregate(s) ==
  LET all[j \in 0..Len(s.servers)] ==
        IF j = 0 THEN <<>> ELSE all[j - 1] \o s.findings[j] \o s.crossRefs[j]
  IN  all[Len(s.servers)]

ReturnScanResult(s) == [s EXCEPT !.pc = "done", !.result = ScanResult(Aggregate(s))]

(***************************************************************************)
(* The display of a scan: the Tree of tree-renderer, the terminal that     *)
(* log-update writes to, and the node maps of scanWithTreeDisplay.  A      *)
(* TreeNode is its position in tree.nodes, in the order of creation        *)
(* (node-0 first); NoNode stands for null.  A character outside ASCII and  *)
(* a style sequence of chalk are one element of a string each, written by  *)
(* their names, and so is a fixed phrase of a template.                    *)
(***************************************************************************)
NoNode == 0

TreeNode(id, content, parent) ==
  [id |-> id, content |-> content, parent |-> parent, children |-> <<>>]

\* new Tree(): the fields, and the rendering options.
TreeNew ==
  [root |-> NoNode, nodes |-> <<>>, nodeIdCounter |-> 0, lastOutput |-> <<>>,
   committed |-> FALSE]

TreePrefix == <<" ", " ">>

TreeJoint == <<"boxvr", "boxh", "boxh", " ">>

TreeVertical == <<"boxv", " ", " ", " ">>

TreeLast == <<"boxur", "boxh", "boxh", " ">>

\* The terminal of log-update: the frame it shows and whether the frame
\* has been persisted by logUpdate.done().
TerminalNew == [frame |-> <<>>, persisted |-> FALSE]

\* The display before scanWithTreeDisplay is called: effect is what the
\* last call of the Tree did to the terminal.
DisplayIdle ==
  [pc |-> "idle", tree |-> TreeNew, terminal |-> TerminalNew, effect |-> "none",
   serverNodes |-> <<>>, toolNodes |-> <<>>]

\* The node a call of addRoot or addChild has just returned.
NewestNode(d) == Len(d.tree.nodes)

\* Tree.addRoot(content)
addRoot(d, content) ==
  [d EXCEPT !.tree.nodes = Append(@, TreeNode(d.tree.nodeIdCounter, content, NoNode)),
            !.tree.root = Len(d.tree.nodes) + 1,
            !.tree.nodeIdCounter = @ + 1,
            !.effect = "none"]

\* Tree.addChild(parent, content), with TreeNode.addChild
addChild(d, parent, content) ==
  [d EXCEPT !.tree.nodes =
              Append([@ EXCEPT ![parent].children = Append(@, Len(d.tree.nodes) + 1)],
                     TreeNode(d.tree.nodeIdCounter, content, parent)),
            !.tree.nodeIdCounter = @ + 1,
            !.effect = "none"]

\* TreeNode.update(content)
update(d, node, content) ==
  [d EXCEPT !.tree.nodes[node].content = IF @ # content THEN content ELSE @,
            !.effect = "none"]

\* lines.join('\n')
RECURSIVE JoinLines(_)
JoinLines(lines) ==
  IF lines = <<>> THEN <<>>
  ELSE IF Len(lines) = 1 THEN lines[1]
  ELSE lines[1] \o <<"\n">> \o JoinLines(Tail(lines))

\* Tree.renderNode(node, prefix, isLast, lines): the lines it pushes.
RECURSIVE renderNode(_, _, _, _)
renderNode(tree, node, prefix, isLast) ==
  LET isRoot == node = tree.root
      line == IF isRoot
                THEN tree.nodes[node].content
                ELSE prefix \o (IF isLast THEN TreeLast ELSE TreeJoint) \o tree.nodes[node].content
      childPrefix == prefix \o (IF isLast THEN TreePrefix ELSE TreeVertical)
      children == tree.nodes[node].children
      pushed[index \in 0..Len(children)] ==
        IF index = 0 THEN <<>>
        ELSE pushed[index - 1]
               \o renderNode(tree, children[index], childPrefix, index = Len(children))
  IN  <<line>> \o pushed[Len(children)]

\* The output render() computes.
RenderedOutput(tree) ==
  JoinLines(IF tree.root # NoNode THEN renderNode(tree, tree.root, <<>>, TRUE) ELSE <<>>)

\* render() without the test of committed.
render_WithoutCommitted(d) ==
  IF RenderedOutput(d.tree) # d.tree.lastOutput
    THEN [d EXCEPT !.terminal.frame = RenderedOutput(d.tree),
                   !.tree.lastOutput = RenderedOutput(d.tree),
                   !.effect = "write"]
    ELSE [d EXCEPT !.effect = "none"]

\* Tree.render()
render(d) ==
  IF d.tree.committed THEN [d EXCEPT !.effect = "none"]
  ELSE IF RenderedOutput(d.tree) # d.tree.lastOutput
         THEN [d EXCEPT !.terminal.frame = RenderedOutput(d.tree),
                        !.tree.lastOutput = RenderedOutput(d.tree),
                        !.effect = "write"]
         ELSE [d EXCEPT !.effect = "none"]

\* Tree.clear()
clear(d) ==
  IF ~d.tree.committed
    THEN [d EXCEPT !.terminal.frame = <<>>, !.tree.lastOutput = <<>>, !.effect = "clear"]
    ELSE [d EXCEPT !.effect = "none"]

\* Tree.done()
done(d) ==
  IF ~d.tree.committed
    THEN [d EXCEPT !.terminal.persisted = TRUE, !.tree.committed = TRUE, !.effect = "done"]
    ELSE [d EXCEPT !.effect = "none"]


\* A Map in the order of insertion: get, and set, which replaces the value
\* of a key the map holds.
MapGet(map, key) ==
  IF \E n \in DOMAIN map : map[n].key = key
    THEN map[CHOOSE n \in DOMAIN map : map[n].key = key].value
    ELSE NoNode

MapSet(map, key, value) ==
  IF \E n \in DOMAIN map : map[n].key = key
    THEN [n \in DOMAIN map |-> IF map[n].key = key THEN [key |-> key, value |-> value] ELSE map[n]]
    ELSE Append(map, [key |-> key, value |-> value])

\* chalk, with colours on.
bold(text) == <<"ESC[1m">> \o text \o <<"ESC[22m">>

red(text) == <<"ESC[31m">> \o text \o <<"ESC[39m">>

green(text) == <<"ESC[32m">> \o text \o <<"ESC[39m">>

yellow(text) == <<"ESC[33m">> \o text \o <<"ESC[39m">>

blue(text) == <<"ESC[34m">> \o text \o <<"ESC[39m">>

\* getRiskLevel(severity, message), called with a message.
getRiskLevel(severity, message) ==
  IF severity = "HIGH" THEN red(message)
  ELSE IF severity = "MEDIUM" THEN yellow(message)
  ELSE IF severity = "LOW" THEN blue(message)
  ELSE message

\* A number in a template.
RECURSIVE NumberText(_)
NumberText(n) ==
  IF n < 10 THEN <<Printable[PrintableIndex("0") + n]>>
  ELSE NumberText(n \div 10) \o <<Printable[PrintableIndex("0") + (n % 10)]>>

\* The message of the error getTools threw.
ErrorText(thrown) ==
  IF thrown.kind = "TimeoutError"
    THEN <<"Connection to ", thrown.target,
           " timed out. Please check if the server is running and accessible.">>
  ELSE IF thrown.kind = "ConnectionError"
    THEN <<"Failed to connect to ", thrown.target, ": ", thrown.cause>>
  ELSE <<thrown.cause>>

\* The contents of the nodes.
RootContent(servers) == <<"Found ">> \o NumberText(Len(servers)) \o <<" servers:">>

ConnectingContent(serverName) == <<"circle", " ">> \o bold(serverName) \o <<" connecting...">>

ConnectedContent(serverName, toolCount) ==
  <<"bullet", " ">> \o bold(serverName) \o <<" ", "(">> \o NumberText(toolCount)
    \o <<" tool">> \o (IF toolCount > 1 THEN <<"s">> ELSE <<>>) \o <<")">>

ErrorContent(serverName, error) ==
  <<"cross", " ">> \o bold(serverName) \o <<" ", "emdash", " ">> \o red(ErrorText(error))

ScanningContent(toolName) ==
  <<"circle", " ">> \o bold(toolName) \o <<" ", "emdash", " ", "scanning...">>

\* event.issueType || "Prompt Injection detected", event.severity || "HIGH"
IssueContent(toolName, severity) ==
  red(<<"cross">>) \o <<" ">> \o bold(toolName)
    \o <<" ", "emdash", " ", "Prompt Injection detected", " ">>
    \o getRiskLevel(IF severity = "none" THEN "HIGH" ELSE severity,
                    <<"[", IF severity = "none" THEN "HIGH" ELSE severity, " Risk]">>)

VerifiedContent(toolName) ==
  green(<<"check">>) \o <<" ">> \o bold(toolName) \o <<" ", "emdash", " ", "Verified">>

\* `${event.serverName}.${event.toolName}`
ToolKey(serverName, toolName) == serverName \o <<".">> \o toolName

\* scanWithTreeDisplay up to the call of scanMcpServer: the root and one
\* node per configured server.
RECURSIVE AddServerNodes(_, _, _)
AddServerNodes(d, servers, n) ==
  IF n > Len(servers) THEN d
  ELSE LET added == addChild(d, d.tree.root, ConnectingContent(servers[n].name))
       IN  AddServerNodes([added EXCEPT !.serverNodes =
                                          MapSet(@, servers[n].name, NewestNode(added))],
                          servers, n + 1)

SetupDisplay(d, servers) ==
  AddServerNodes([addRoot(d, RootContent(servers)) EXCEPT !.pc = "scanning"], servers, 1)

\* event.tools.forEach(...) of server-connected: a node per tool.
RECURSIVE AddToolNodes(_, _, _, _)
AddToolNodes(d, serverNode, event, n) ==
  IF n > Len(event.tools) THEN d
  ELSE LET added == addChild(d, serverNode, ScanningContent(event.tools[n].name))
       IN  AddToolNodes([added EXCEPT !.toolNodes =
                                        MapSet(@, ToolKey(event.serverName, event.tools[n].name),
                                               NewestNode(added))],
                        serverNode, event, n + 1)

\* The branch of progressCallback for the type of the event.
HandleEvent(d, event) ==
  LET serverNode == MapGet(d.serverNodes, event.serverName)
      toolNode == MapGet(d.toolNodes, ToolKey(event.serverName, event.toolName))
  IN  IF event.type = "server-connected"
        THEN IF serverNode # NoNode
               THEN AddToolNodes(update(d, serverNode,
                                        ConnectedContent(event.serverName, event.toolCount)),
                                 serverNode, event, 1)
               ELSE d
      ELSE IF event.type = "server-error"
        THEN IF serverNode # NoNode
               THEN update(d, serverNode, ErrorContent(event.serverName, event.error))
               ELSE d
      ELSE IF event.type = "tool-scanning"
        THEN IF toolNode # NoNode
               THEN update(d, toolNode, ScanningContent(event.toolName))
               ELSE d
      ELSE IF event.type = "tool-analyzed"
        THEN IF toolNode # NoNode
               THEN IF event.hasIssues
                      THEN update(d, toolNode, IssueContent(event.toolName, event.severity))
                      ELSE update(d, toolNode, VerifiedContent(event.toolName))
               ELSE d
      ELSE d

\* progressCallback(event)
progressCallback(d, event) ==
  IF event.type \in {"server-connected", "server-error", "tool-scanning", "tool-analyzed"}
    THEN render(HandleEvent(d, event))
    ELSE d

\* scanWithTreeDisplay after the scan has returned: tree.render(), tree.done().
FinishDisplay(d) == [done(render(d)) EXCEPT !.pc = "done"]

(***************************************************************************)
(* The calls.  Each behaviour is one call of one exported function with    *)
(* arguments drawn from the input sets: the functions keep no state, so a  *)
(* call depends on nothing but its arguments.                              *)
(***************************************************************************)
NoArgs ==
  [description |-> Undefined, schema |-> SchemaUndefined, otherServerNames |-> NoList,
   currentServerName |-> <<>>, safeList |-> NoList]

Init ==
  /\ call = "none"
  /\ args = NoArgs
  /\ outcome = Returned(<<>>)
  /\ connector = ConnectorIdle
  /\ analyzer = AnalyzerIdle
  /\ scan = ScanIdle
  /\ display = DisplayIdle

CallDetectHiddenInstructions ==
  \E d \in Descriptions :
    /\ call = "none"
    /\ call' = "detectHiddenInstructions"
    /\ args' = [NoArgs EXCEPT !.description = d]
    /\ outcome' = detectHiddenInstructions(d)
    /\ UNCHANGED <<connector, analyzer, scan, display>>

CallDetectToolShadowing ==
  \E d \in Descriptions :
    /\ call = "none"
    /\ call' = "detectToolShadowing"
    /\ args' = [NoArgs EXCEPT !.description = d]
    /\ outcome' = detectToolShadowing(d)
    /\ UNCHANGED <<connector, analyzer, scan, display>>

CallDetectSensitiveFileAccess ==
  \E d \in Descriptions :
    /\ call = "none"
    /\ call' = "detectSensitiveFileAccess"
    /\ args' = [NoArgs EXCEPT !.description = d]
    /\ outcome' = detectSensitiveFileAccess(d)
    /\ UNCHANGED <<connector, analyzer, scan, display>>

CallDetectExfiltrationChannels ==
  \E sc \in Schemas :
    /\ call = "none"
    /\ call' = "detectExfiltrationChannels"
    /\ args' = [NoArgs EXCEPT !.schema = sc]
    /\ outcome' = detectExfiltrationChannels(sc)
    /\ UNCHANGED <<connector, analyzer, scan, display>>

CallDetectCrossOriginViolations ==
  \E d \in CrossDescriptions, others \in OtherServerLists,
     current \in CurrentServerNames, safe \in SafeLists :
    /\ call = "none"
    /\ call' = "detectCrossOriginViolations"
    /\ args' = [NoArgs EXCEPT !.description = d, !.otherServerNames = others,
                              !.currentServerName = current, !.safeList = safe]
    /\ outcome' = detectCrossOriginViolations(d, others, current, safe)
    /\ UNCHANGED <<connector, analyzer, scan, display>>

Next ==
  \/ CallDetectHiddenInstructions
  \/ CallDetectToolShadowing
  \/ CallDetectSensitiveFileAccess
  \/ CallDetectExfiltrationChannels
  \/ CallDetectCrossOriginViolations

Spec == Init /\ [][Next]_vars

(***************************************************************************)
(* The tools a server advertises: a name, a description and an input       *)
(* schema, the last two optional.                                          *)
(***************************************************************************)
Tool(name, description, inputSchema) ==
  [name |-> name, description |-> description, inputSchema |-> inputSchema]

\* A clean tool, a tool whose description holds a wrapper tag, a tool that
\* names another server and declares a suspicious parameter, and a tool
\* without description and schema.
ToolCatalog ==
  << Tool("add", StringValue(Fragments[9]),
          SchemaObject(<<[name |-> <<"p", "a", "t", "h">>, details |-> DetailsObject("string")]>>)),
     Tool("calc", StringValue(Fragments[3]), SchemaWithoutProperties),
     Tool("send", StringValue(<<"c", "a", "l", "l", " ", "(", "w", "h", "a", "t", "s", "a", "p",
                                "p", ")", " ", "t", "o", " ", "s", "e", "n", "d">>),
          SchemaObject(<<[name |-> <<"n", "o", "t", "e">>, details |-> DetailsObject("string")]>>)),
     Tool("bare", Undefined, SchemaUndefined) >>

MaxTools == 2

\* What listTools answers: a response without a tools field, or with the
\* list of at most MaxTools tools.
ToolsResponses ==
  {NoTools} \cup
  {ToolList([i \in DOMAIN ts |-> ToolCatalog[ts[i]]]) : ts \in SeqsUpTo(DOMAIN ToolCatalog, MaxTools)}

(***************************************************************************)
(* The calls of getTools: the configurations and names it is called with,  *)
(* and the errors the client rejects with.                                 *)
(***************************************************************************)
ServerConfigs ==
  [url : {NoString, "", "http://localhost:3001/sse", "localhost"},
   command : {NoString, "", "node"}]

IdentifyAs == {NoString, "claude-desktop"}

ConnectErrors ==
  { [isError |-> TRUE, message |-> "connect ECONNREFUSED"],
    [isError |-> FALSE, message |-> "spawn failed"] }

ListToolsErrors == { [isError |-> TRUE, message |-> "Request timed out"] }

CloseErrors == { [isError |-> TRUE, message |-> "Not connected"] }

InitGetTools == Init

\* getTools(serverConfig, identifyAs) up to its first await.
CallGetTools ==
  \E serverConfig \in ServerConfigs, identifyAs \in IdentifyAs :
    /\ connector.pc = "idle"
    /\ LET c == CreateTransport(connector, serverConfig, identifyAs)
       IN  connector' = IF c.pc = "settled" THEN c ELSE StartRace(c)
    /\ UNCHANGED <<call, args, outcome, analyzer, scan, display>>

\* connectionPromise is fulfilled: when the race is still awaited, it is
\* won and client.listTools() is called.
ConnectFulfils ==
  /\ connector.connectionPromise = "pending"
  /\ connector' =
       IF connector.pc = "racing"
         THEN [connector EXCEPT !.connectionPromise = "fulfilled", !.pc = "listing",
                                !.listTools = "pending"]
         ELSE [connector EXCEPT !.connectionPromise = "fulfilled"]
  /\ UNCHANGED <<call, args, outcome, analyzer, scan, display>>

\* connectionPromise is rejected: when the race is still awaited, the
\* rejection is caught.
ConnectRejects ==
  \E error \in ConnectErrors :
    /\ connector.connectionPromise = "pending"
    /\ connector' =
         IF connector.pc = "racing"
           THEN Catch([connector EXCEPT !.connectionPromise = "rejected"], error)
           ELSE [connector EXCEPT !.connectionPromise = "rejected"]
    /\ UNCHANGED <<call, args, outcome, analyzer, scan, display>>

\* The 30 seconds have passed: timeoutPromise is rejected.  When the race
\* is still awaited the rejection is caught; later nothing awaits it.
TimerFires ==
  /\ connector.timer = "pending"
  /\ connector' =
       IF connector.pc = "racing"
         THEN Catch([connector EXCEPT !.timer = "fired", !.unanswered = TRUE], TimeoutRejection)
         ELSE [connector EXCEPT !.timer = "fired",
                                !.unanswered = @ \/ connector.pc = "listing"]
  /\ UNCHANGED <<call, args, outcome, analyzer, scan, display>>

\* listTools is fulfilled, and `await client.close()` of the try block is
\* reached.
ListToolsFulfils ==
  \E toolsResponse \in ToolsResponses :
    /\ connector.pc = "listing"
    /\ connector' = [connector EXCEPT !.listTools = "fulfilled",
                                      !.toolsResponse = toolsResponse, !.pc = "closing",
                                      !.closeCalls = @ + 1]
    /\ UNCHANGED <<call, args, outcome, analyzer, scan, display>>

ListToolsRejects ==
  \E error \in ListToolsErrors :
    /\ connector.pc = "listing"
    /\ connector' = Catch([connector EXCEPT !.listTools = "rejected"], error)
    /\ UNCHANGED <<call, args, outcome, analyzer, scan, display>>

\* client.close() is fulfilled: in the try block the return statement is
\* reached and the finally block runs; in the finally block the call
\* settles.
CloseFulfils ==
  /\ connector.pc \in {"closing", "finally"}
  /\ connector' =
       IF connector.pc = "closing"
         THEN Finally(connector, ReturnsTools(connector.toolsResponse))
         ELSE [connector EXCEPT !.pc = "settled", !.result = connector.completion]
  /\ UNCHANGED <<call, args, outcome, analyzer, scan, display>>

\* client.close() is rejected: in the try block the rejection is caught
\* like any other; in the finally block it is ignored.
CloseRejects ==
  \E error \in CloseErrors :
    /\ connector.pc \in {"closing", "finally"}
    /\ connector' =
         IF connector.pc = "closing"
           THEN Catch(connector, error)
           ELSE [connector EXCEPT !.pc = "settled", !.result = connector.completion]
    /\ UNCHANGED <<call, args, outcome, analyzer, scan, display>>

NextGetTools ==
  \/ CallGetTools
  \/ ConnectFulfils
  \/ ConnectRejects
  \/ TimerFires
  \/ ListToolsFulfils
  \/ ListToolsRejects
  \/ CloseFulfils
  \/ CloseRejects

SpecGetTools == InitGetTools /\ [][NextGetTools]_vars

(***************************************************************************)
(* The calls of analyzeWithClaude: the descriptions, keys and flags it is  *)
(* called with, the responses of at most MaxBlocks blocks and the errors   *)
(* messages.create rejects with.                                           *)
(***************************************************************************)
ApiKeys == {NoString, "", "sk-ant-test"}

UseBedrockValues == {NoBoolean, "false", "true"}

AnalyzedDescriptions == {Fragments[3], Fragments[9]}

MaxBlocks == 2

Blocks ==
  { TextBlock(<<"O", "v", "e", "r", "a", "l", "l", " ", "r", "i", "s", "k", ":", " ", "H", "I", "G", "H">>),
    TextBlock(<<"M", "E", "D", "I", "U", "M", " ", "r", "i", "s", "k">>),
    TextBlock(<<"L", "O", "W", ",", " ", "n", "o", "t", " ", "H", "I", "G", "H">>),
    TextBlock(<<"N", "o", " ", "i", "s", "s", "u", "e", ",", " ", "l", "o", "w">>),
    TextBlock(<<>>),
    ToolUseBlock }

ResponseContents == SeqsUpTo(Blocks, MaxBlocks)

ApiErrors ==
  { ErrorValue(<<"4", "0", "1", " ", "i", "n", "v", "a", "l", "i", "d", " ", "x", "-", "a", "p", "i", "-", "k", "e", "y">>),
    ErrorValue(<<"C", "o", "n", "n", "e", "c", "t", "i", "o", "n", " ", "e", "r", "r", "o", "r", ".">>),
    NonError }

\* The errors `new Anthropic({apiKey})` may throw when it is given no key.
MissingKeyMessage == <<"C", "o", "u", "l", "d", " ", "n", "o", "t", " ", "r", "e", "s", "o", "l", "v", "e", " ", "a", "u", "t", "h", "e", "n", "t", "i", "c", "a", "t", "i", "o", "n", " ", "m", "e", "t", "h", "o", "d">>

InitAnalyze == Init

\* The try block up to `await ... messages.create(...)`: the client is
\* built, which may throw when no key is given, and the one request is sent
\* with the Bedrock client or with the Anthropic client.
SendRequest(a, constructed) ==
  IF ~constructed
    THEN [a EXCEPT !.pc = "settled", !.result = CatchAnalysis(ErrorValue(MissingKeyMessage))]
    ELSE [a EXCEPT !.pc = "awaiting", !.apiCalls = @ + 1, !.response.state = "pending",
                   !.client = IF a.useBedrock = "true" THEN "bedrock" ELSE "anthropic"]

\* analyzeWithClaude(toolDescription, apiKey, useBedrock) up to its await.
CallAnalyzeWithClaude ==
  \E toolDescription \in AnalyzedDescriptions, apiKey \in ApiKeys,
     useBedrock \in UseBedrockValues, constructed \in BOOLEAN :
    /\ analyzer.pc = "idle"
    /\ IsTruthy(apiKey) => constructed
    /\ LET a == [analyzer EXCEPT !.form = "apiKey, useBedrock",
                                 !.toolDescription = toolDescription,
                                 !.apiKey = apiKey, !.useBedrock = useBedrock]
       IN  analyzer' =
             IF ~IsTruthy(apiKey) /\ useBedrock # "true"
               THEN [a EXCEPT !.pc = "settled",
                              !.result = ReturnsAnalysis(AnalysisUnavailable, "null")]
               ELSE SendRequest(a, constructed)
    /\ UNCHANGED <<call, args, outcome, connector, scan, display>>

\* analyzeWithClaude(toolDescription, apiKey), the form with the key alone,
\* up to its await.
CallAnalyzeWithApiKey ==
  \E toolDescription \in AnalyzedDescriptions, apiKey \in ApiKeys :
    /\ analyzer.pc = "idle"
    /\ LET a == [analyzer EXCEPT !.form = "apiKey", !.toolDescription = toolDescription,
                                 !.apiKey = apiKey]
       IN  analyzer' =
             IF ~IsTruthy(apiKey)
               THEN [a EXCEPT !.pc = "settled",
                              !.result = ReturnsAnalysis(AnalysisUnavailable, "null")]
               ELSE SendRequest(a, TRUE)
    /\ UNCHANGED <<call, args, outcome, connector, scan, display>>

\* messages.create is fulfilled: the response is read and returned.
CreateFulfils ==
  \E content \in ResponseContents :
    /\ analyzer.pc = "awaiting"
    /\ analyzer' = [analyzer EXCEPT !.pc = "settled", !.response.state = "fulfilled",
                                    !.response.content = content,
                                    !.result = ReadResponse(content)]
    /\ UNCHANGED <<call, args, outcome, connector, scan, display>>

\* messages.create is rejected: the catch block receives the error.
CreateRejects ==
  \E error \in ApiErrors :
    /\ analyzer.pc = "awaiting"
    /\ analyzer' = [analyzer EXCEPT !.pc = "settled", !.response.state = "rejected",
                                    !.response.error = error,
                                    !.result = CatchAnalysis(error)]
    /\ UNCHANGED <<call, args, outcome, connector, scan, display>>

NextAnalyze ==
  \/ CallAnalyzeWithClaude
  \/ CallAnalyzeWithApiKey
  \/ CreateFulfils
  \/ CreateRejects

SpecAnalyze == InitAnalyze /\ [][NextAnalyze]_vars

(***************************************************************************)
(* The scans: the configurations scanMcpServer is called on, and what      *)
(* getTools settles with for a server of the configuration.                *)
(***************************************************************************)
ScanServerPool ==
  << [name |-> <<"n", "o", "t", "e", "s">>,
      serverConfig |-> [url |-> NoString, command |-> "node"]],
     [name |-> <<"w", "h", "a", "t", "s", "a", "p", "p">>,
      serverConfig |-> [url |-> "http://localhost:3001/sse", command |-> NoString]],
     [name |-> <<"f", "i", "l", "e", "s">>,
      serverConfig |-> [url |-> NoString, command |-> "node"]] >>

MaxServers == 2

\* The configurations: at most MaxServers servers of the pool, each once,
\* in the order of the pool.
Configurations ==
  { [i \in DOMAIN picked |-> ScanServerPool[picked[i]]] :
      picked \in { p \in SeqsUpTo(DOMAIN ScanServerPool, MaxServers) :
                    \A i, j \in DOMAIN p : i < j => p[i] < p[j] } }

\* What the servers of a scan answer to listTools.
ScanToolsResponses ==
  { NoTools, ToolList(<<ToolCatalog[1]>>), ToolList(<<ToolCatalog[2], ToolCatalog[3]>>) }

\* What getTools settles with: the tools, a timeout or a failed connection.
GetToolsOutcomes(serverConfig) ==
  {ReturnsTools(toolsResponse) : toolsResponse \in ScanToolsResponses}
    \cup {ThrowsTimeout(serverConfig)}
    \cup {ThrowsFailedToConnect(serverConfig, error) : error \in ConnectErrors}

InitScan == Init

CallScanMcpServer ==
  \E servers \in Configurations :
    /\ scan.pc = "idle"
    /\ scan' = StartScan(scan, servers)
    /\ UNCHANGED <<call, args, outcome, connector, analyzer, display>>

GetToolsCalled ==
  \E i \in DOMAIN scan.servers :
    /\ scan.pc = "scanning"
    /\ scan.serverState[i] = "pending"
    /\ scan' = BeginConnect(scan, i)
    /\ UNCHANGED <<call, args, outcome, connector, analyzer, display>>

GetToolsSettles ==
  \E i \in DOMAIN scan.servers :
    \E settled \in GetToolsOutcomes(scan.servers[i].serverConfig) :
      /\ scan.pc = "scanning"
      /\ scan.serverState[i] = "connecting"
      /\ scan' = ServerSettles(scan, i, settled)
      /\ UNCHANGED <<call, args, outcome, connector, analyzer, display>>

\* The tools of a server are taken in the order of the list.
ToolScanning ==
  \E i \in DOMAIN scan.servers :
    \E k \in DOMAIN scan.toolState[i] :
      /\ scan.pc = "scanning"
      /\ scan.serverState[i] = "connected"
      /\ scan.toolState[i][k] = "pending"
      /\ \A j \in 1..(k - 1) : scan.toolState[i][j] = "analyzed"
      /\ scan' = ScanTool(scan, i, k)
      /\ UNCHANGED <<call, args, outcome, connector, analyzer, display>>

ToolAnalyzed ==
  \E i \in DOMAIN scan.servers :
    \E k \in DOMAIN scan.toolState[i] :
      /\ scan.pc = "scanning"
      /\ scan.toolState[i][k] = "scanning"
      /\ scan' = AnalyzeTool(scan, i, k)
      /\ UNCHANGED <<call, args, outcome, connector, analyzer, display>>

CorrelationPass ==
  /\ scan.pc = "scanning"
  /\ AllPassesComplete(scan)
  /\ scan' = Correlate(scan)
  /\ UNCHANGED <<call, args, outcome, connector, analyzer, display>>

ScanReturns ==
  /\ scan.pc = "correlated"
  /\ scan' = ReturnScanResult(scan)
  /\ UNCHANGED <<call, args, outcome, connector, analyzer, display>>

NextScan ==
  \/ CallScanMcpServer
  \/ GetToolsCalled
  \/ GetToolsSettles
  \/ ToolScanning
  \/ ToolAnalyzed
  \/ CorrelationPass
  \/ ScanReturns

SpecScan == InitScan /\ [][NextScan]_vars

(***************************************************************************)
(* The scans with the tree display: scanWithTreeDisplay sets the tree up,  *)
(* calls scanMcpServer with progressCallback, and the scan calls it with   *)
(* every event it emits.  The servers and tools drawn have names with a    *)
(* dot, and a server may advertise two tools of one name.                  *)
(***************************************************************************)
DisplayServerPool ==
  << [name |-> <<"a">>, serverConfig |-> [url |-> NoString, command |-> "node"]],
     [name |-> <<"a", ".", "b">>,
      serverConfig |-> [url |-> "http://localhost:3001/sse", command |-> NoString]] >>

DisplayConfigurations ==
  { [i \in DOMAIN picked |-> DisplayServerPool[picked[i]]] :
      picked \in { p \in SeqsUpTo(DOMAIN DisplayServerPool, MaxServers) :
                    \A i, j \in DOMAIN p : i < j => p[i] < p[j] } }

\* A clean tool c, a tool c whose description holds a wrapper tag, and a
\* clean tool b.c.
DisplayTools ==
  << Tool(<<"c">>, StringValue(Fragments[9]), SchemaUndefined),
     Tool(<<"c">>, StringValue(Fragments[3]), SchemaUndefined),
     Tool(<<"b", ".", "c">>, StringValue(Fragments[9]), SchemaUndefined) >>

DisplayToolsResponses ==
  { NoTools, ToolList(<<DisplayTools[1]>>), ToolList(<<DisplayTools[2]>>),
    ToolList(<<DisplayTools[3]>>), ToolList(<<DisplayTools[1], DisplayTools[2]>>) }

DisplayOutcomes(serverConfig) ==
  {ReturnsTools(toolsResponse) : toolsResponse \in DisplayToolsResponses}
    \cup {ThrowsTimeout(serverConfig)}

\* The event the scan has emitted last for server i.
LastEvent(s, i) == s.events[i][Len(s.events[i])]

InitDisplay == Init

CallScanWithTreeDisplay ==
  \E servers \in DisplayConfigurations :
    /\ display.pc = "idle"
    /\ scan.pc = "idle"
    /\ display' = SetupDisplay(display, servers)
    /\ scan' = StartScan(scan, servers)
    /\ UNCHANGED <<call, args, outcome, connector, analyzer>>

EmitServerEvent ==
  \E i \in DOMAIN scan.servers :
    \E settled \in DisplayOutcomes(scan.servers[i].serverConfig) :
      /\ display.pc = "scanning"
      /\ scan.pc = "scanning"
      /\ scan.serverState[i] = "connecting"
      /\ scan' = ServerSettles(scan, i, settled)
      /\ display' = progressCallback(display, LastEvent(scan', i))
      /\ UNCHANGED <<call, args, outcome, connector, analyzer>>

EmitToolScanning ==
  \E i \in DOMAIN scan.servers :
    \E k \in DOMAIN scan.toolState[i] :
      /\ display.pc = "scanning"
      /\ scan.pc = "scanning"
      /\ scan.serverState[i] = "connected"
      /\ scan.toolState[i][k] = "pending"
      /\ \A j \in 1..(k - 1) : scan.toolState[i][j] = "analyzed"
      /\ scan' = ScanTool(scan, i, k)
      /\ display' = progressCallback(display, LastEvent(scan', i))
      /\ UNCHANGED <<call, args, outcome, connector, analyzer>>

EmitToolAnalyzed ==
  \E i \in DOMAIN scan.servers :
    \E k \in DOMAIN scan.toolState[i] :
      /\ display.pc = "scanning"
      /\ scan.pc = "scanning"
      /\ scan.toolState[i][k] = "scanning"
      /\ scan' = AnalyzeTool(scan, i, k)
      /\ display' = progressCallback(display, LastEvent(scan', i))
      /\ UNCHANGED <<call, args, outcome, connector, analyzer>>

ScanWithTreeDisplayReturns ==
  /\ display.pc = "scanning"
  /\ scan.pc = "correlated"
  /\ scan' = ReturnScanResult(scan)
  /\ display' = FinishDisplay(display)
  /\ UNCHANGED <<call, args, outcome, connector, analyzer>>

NextDisplay ==
  \/ CallScanWithTreeDisplay
  \/ GetToolsCalled
  \/ EmitServerEvent
  \/ EmitToolScanning
  \/ EmitToolAnalyzed
  \/ CorrelationPass
  \/ ScanWithTreeDisplayReturns

SpecDisplay == InitDisplay /\ [][NextDisplay]_vars

(***************************************************************************)
(* The calls of a Tree: addRoot, addChild, update of a node, render, clear *)
(* and done, in any order, on a tree of at most MaxNodes nodes.            *)
(***************************************************************************)
MaxNodes == 3

TreeContents == { <<>>, <<"a">>, <<"b">> }

InitTree == Init

CallAddRoot ==
  \E content \in TreeContents :
    /\ display.pc = "idle"
    /\ display.tree.nodeIdCounter < MaxNodes
    /\ display' = addRoot(display, content)
    /\ UNCHANGED <<call, args, outcome, connector, analyzer, scan>>

CallAddChild ==
  \E parent \in DOMAIN display.tree.nodes :
    \E content \in TreeContents :
      /\ display.pc = "idle"
      /\ display.tree.nodeIdCounter < MaxNodes
      /\ display' = addChild(display, parent, content)
      /\ UNCHANGED <<call, args, outcome, connector, analyzer, scan>>

CallUpdate ==
  \E node \in DOMAIN display.tree.nodes :
    \E content \in TreeContents :
      /\ display.pc = "idle"
      /\ display' = update(display, node, content)
      /\ UNCHANGED <<call, args, outcome, connector, analyzer, scan>>

CallRender ==
  /\ display.pc = "idle"
  /\ display' = render(display)
  /\ UNCHANGED <<call, args, outcome, connector, analyzer, scan>>

CallClear ==
  /\ display.pc = "idle"
  /\ display' = clear(display)
  /\ UNCHANGED <<call, args, outcome, connector, analyzer, scan>>

CallDone ==
  /\ display.pc = "idle"
  /\ display' = done(display)
  /\ UNCHANGED <<call, args, outcome, connector, analyzer, scan>>

NextTree ==
  \/ CallAddRoot
  \/ CallAddChild
  \/ CallUpdate
  \/ CallRender
  \/ CallClear
  \/ CallDone

SpecTree == InitTree /\ [][NextTree]_vars

(***************************************************************************)
(* Properties of the detectors.                                            *)
(***************************************************************************)
TextDetectorCalls ==
  {"detectHiddenInstructions", "detectToolShadowing", "detectSensitiveFileAccess"}

CategoryDetectorCalls == TextDetectorCalls \cup {"detectExfiltrationChannels"}

DescriptionCalls == TextDetectorCalls \cup {"detectCrossOriginViolations"}

RulesOf(detector) ==
  CASE detector = "detectHiddenInstructions" -> detectHiddenInstructionsPatterns
    [] detector = "detectToolShadowing" -> detectToolShadowingPatterns
    [] detector = "detectSensitiveFileAccess" -> detectSensitiveFileAccessPatterns

DescriptionAbsent == ~args.description.defined \/ Len(args.description.chars) = 0

SchemaAbsent == args.schema.kind \in {"undefined", "null"} \/ ~args.schema.hasProperties

ReturnedNoMatch == ~outcome.threw /\ ~outcome.detected /\ outcome.matches = <<>>

\* C1: a detector called with an absent description (undefined or empty),
\* and the exfiltration detector called with an absent schema or a schema
\* without a properties field, returns detected = false with no match and
\* raises no error.
C1_AbsentInputGivesNoMatch ==
  /\ call \in DescriptionCalls /\ DescriptionAbsent => ReturnedNoMatch
  /\ call = "detectExfiltrationChannels" /\ SchemaAbsent => ReturnedNoMatch

C1_Witness ==
  /\ call = "detectSensitiveFileAccess"
  /\ ~args.description.defined
  /\ ReturnedNoMatch

\* C2: the four category detectors return a result for every description
\* and every schema, and never raise an error.
C2_DetectionIsTotal == call \in CategoryDetectorCalls => ~outcome.threw

\* C3: every match of a text detector and of the correlator has a context
\* that contains the matched string, and the matched string occurs in the
\* description as it was given, in its original casing.
C3_ContextContainsMatch ==
  call \in DescriptionCalls =>
    \A p \in DOMAIN outcome.matches :
      /\ IsSubstring(outcome.matches[p].match, outcome.matches[p].context)
      /\ IsSubstring(outcome.matches[p].match, args.description.chars)

C3_Witness ==
  /\ call = "detectCrossOriginViolations"
  /\ \E p \in DOMAIN outcome.matches :
       /\ outcome.matches[p].match = <<"W", "h", "a", "t", "s", "A", "p", "p">>
       /\ outcome.matches[p].pattern =
            TokenRegExpSource(<<"w", "h", "a", "t", "s", "a", "p", "p">>)

\* A rule occurs in a text when its pattern matches from some offset; its
\* first occurrence is the one with the least offset.
RuleOccursAt(rule, text, s) == Ends(rule.pattern, text, s) # <<>>

RuleOccurs(rule, text) == \E s \in 0..Len(text) : RuleOccursAt(rule, text, s)

FirstOccurrence(rule, text) ==
  CHOOSE s \in 0..Len(text) :
    RuleOccursAt(rule, text, s) /\ \A r \in 0..(s - 1) : ~RuleOccursAt(rule, text, r)

\* The rules that occur in the text, as their positions in the rule table,
\* in rule order.
OccurringRules(rules, text) ==
  SelectSeq([j \in 1..Len(rules) |-> j], LAMBDA j : RuleOccurs(rules[j], text))

\* C4: a text detector reports exactly one match for each rule whose
\* pattern occurs in the text, taken at the rule's first occurrence, in
\* rule order, and none for the other rules; detected holds exactly when
\* some rule occurs.
C4_OneMatchPerOccurringRule ==
  call \in TextDetectorCalls =>
    LET text  == args.description.chars
        rules == RulesOf(call)
        hit   == OccurringRules(rules, text)
    IN  /\ ~outcome.threw
        /\ Len(outcome.matches) = Len(hit)
        /\ outcome.detected <=> Len(hit) > 0
        /\ \A p \in DOMAIN hit :
             LET found == outcome.matches[p]
                 first == FirstOccurrence(rules[hit[p]], text)
             IN  /\ found.type = rules[hit[p]].name
                 /\ found.pattern = rules[hit[p]].source
                 /\ found.match = substring(text, first, first + Len(found.match))

C4_Witness ==
  /\ call = "detectSensitiveFileAccess"
  /\ Len(outcome.matches) >= 3
  /\ Len(outcome.matches) < Len(detectSensitiveFileAccessPatterns)

ArgumentNames == {args.schema.properties[i].name : i \in DOMAIN args.schema.properties}

Reversed(q) == [i \in 1..Len(q) |-> q[Len(q) + 1 - i]]

LowerCasedNames(q) == [i \in 1..Len(q) |-> [q[i] EXCEPT !.name = toLowerCase(q[i].name)]]

\* C5: the exfiltration detector returns detected = true exactly when some
\* property name, lower-cased, is in the suspicious vocabulary, and the
\* order of the properties and the letter case of their names change
\* neither that nor the number of matches.
C5_FlaggedIffSuspiciousName ==
  call = "detectExfiltrationChannels" =>
    /\ (~outcome.threw /\ outcome.detected) <=>
         \E name \in ArgumentNames : toLowerCase(name) \in Range(suspiciousParams)
    /\ \A q \in {Reversed(args.schema.properties), LowerCasedNames(args.schema.properties)} :
         LET other == detectExfiltrationChannels([args.schema EXCEPT !.properties = q])
         IN  /\ other.detected = outcome.detected
             /\ Len(other.matches) = Len(outcome.matches)

\* The candidate names as the specification gives them: the other servers
\* that are not safe-listed, and the well-known servers but the current one.
CandidateSet ==
  (Range(args.otherServerNames.names)
     \ (IF args.safeList.defined THEN Range(args.safeList.names) ELSE {}))
  \cup (Range(POPULAR_MCP_SERVERS) \ {args.currentServerName})

\* C6: the names a description is compared with are exactly the candidate
\* set, every match references one of them, and with an empty candidate
\* set nothing is detected.
C6_ComparedAgainstCandidateSet ==
  call = "detectCrossOriginViolations" =>
    /\ Range(combinedServerNames(args.otherServerNames, args.currentServerName,
                                 args.safeList)) = CandidateSet
    /\ \A p \in DOMAIN outcome.matches :
         /\ outcome.matches[p].referencedServer.defined
         /\ outcome.matches[p].referencedServer.chars \in CandidateSet
    /\ CandidateSet = {} => ReturnedNoMatch

C6_Witness ==
  /\ call = "detectCrossOriginViolations"
  /\ args.otherServerNames.names = << <<"m", "y", "-", "s", "e", "r", "v", "e", "r">> >>
  /\ args.safeList.defined
  /\ args.currentServerName = <<"w", "h", "a", "t", "s", "a", "p", "p">>
  /\ \E i \in DOMAIN args.description.chars : args.description.chars[i] = "-"
  /\ Len(outcome.matches) = 1
  /\ outcome.matches[1].referencedServer.chars = <<"s", "l", "a", "c", "k">>

DescriptionTokens == SplitOnWhiteSpace(toLowerCase(args.description.chars))

\* A name as the specification normalizes it for the comparison.
NormalizedName(name) == UnderscoresToHyphens(toLowerCase(name))

ReportedFor(token) ==
  \E p \in DOMAIN outcome.matches : outcome.matches[p].pattern = TokenRegExpSource(token)

\* A name of letters, digits, hyphens and underscores: as a RegExp source
\* it stands for itself, and \b holds on both sides of it in a token.
IsPlainName(name) == \A i \in DOMAIN name : name[i] \in WordChars \cup {"-"}

\* C7: a token is reported as a reference whenever, stripped of one pair
\* of parentheses, lower-cased and with underscores as hyphens, it equals a
\* candidate name lower-cased and with underscores as hyphens.  Stated for
\* the calls that return and for the candidate names of letters, digits,
\* hyphens and underscores, such as my_server.
C7_NormalizedTokenAgainstNormalizedName ==
  call = "detectCrossOriginViolations" /\ ~DescriptionAbsent /\ ~outcome.threw =>
    \A j \in DOMAIN DescriptionTokens :
      (\E name \in CandidateSet :
         /\ IsPlainName(name)
         /\ CleanedToken(DescriptionTokens[j]) = NormalizedName(name))
        => ReportedFor(DescriptionTokens[j])

\* C8: when no other server carries the current server's name, no match
\* references the current server's own name, in whatever letter case the
\* current server's name is written.
C8_NoSelfMatch ==
  call = "detectCrossOriginViolations"
    /\ (\A name \in Range(args.otherServerNames.names) :
          toLowerCase(name) # toLowerCase(args.currentServerName))
  => \A p \in DOMAIN outcome.matches :
       toLowerCase(outcome.matches[p].referencedServer.chars)
         # toLowerCase(args.currentServerName)

\* The tokens that equal a candidate name under the comparison the
\* correlator makes: the cleaned token against the lower-cased names.
HitTokens ==
  SelectSeq(DescriptionTokens,
            LAMBDA token : \E name \in CandidateSet : CleanedToken(token) = toLowerCase(name))

\* C9: of a call that returns, the matches are one for each token that
\* equals a candidate name under the correlator's comparison, in token
\* order, and none for the other tokens.
C9_OneMatchPerHit ==
  call = "detectCrossOriginViolations" /\ ~DescriptionAbsent /\ ~outcome.threw =>
    /\ Len(outcome.matches) = Len(HitTokens)
    /\ \A p \in DOMAIN outcome.matches :
         p <= Len(HitTokens) =>
           outcome.matches[p].pattern = TokenRegExpSource(HitTokens[p])

\* C10: detectCrossOriginViolations returns a result for every description,
\* every list of other server names, every current server name and every
\* safe list, and never raises an error.
C10_CorrelationIsTotal == call = "detectCrossOriginViolations" => ~outcome.threw

\* The offset at which the match of the p-th reported rule starts: the
\* rule's first occurrence in the description.
MatchStart(p) ==
  LET rules == RulesOf(call)
      hit   == OccurringRules(rules, args.description.chars)
  IN  FirstOccurrence(rules[hit[p]], args.description.chars)

\* The window around a match from offset `from` to offset `to` of a text of
\* `length` characters, as the offsets of its first character and of the
\* character after its last.
WindowStart(from) == IF from > ContextWindow THEN from - ContextWindow ELSE 0

WindowEnd(to, length) == IF to + ContextWindow < length THEN to + ContextWindow ELSE length

\* C12: the context of every match of a text detector is the text from 20
\* characters before the match to 20 characters after it, cut at the start
\* and at the end of the text, with an ellipsis marker before it and one
\* after it (so on every side where the window is clipped).
C12_ContextIsClippedWindow ==
  call \in TextDetectorCalls =>
    \A p \in DOMAIN outcome.matches :
      LET text    == args.description.chars
          context == outcome.matches[p].context
          from    == MatchStart(p)
          to      == from + Len(outcome.matches[p].match)
          first   == WindowStart(from)
          last    == WindowEnd(to, Len(text))
          window  == [i \in 1..(last - first) |-> text[first + i]]
      IN  /\ Len(context) = Len(window) + 2 * Len(Ellipsis)
          /\ SubSeq(context, 1, Len(Ellipsis)) = Ellipsis
          /\ SubSeq(context, Len(Ellipsis) + 1, Len(Ellipsis) + Len(window)) = window
          /\ SubSeq(context, Len(context) - Len(Ellipsis) + 1, Len(context)) = Ellipsis
          /\ Len(window) <= 2 * ContextWindow + Len(outcome.matches[p].match)

\* A match with more than 20 characters before it and fewer than 20 after:
\* the window is cut on the right by the end of the text and starts inside
\* the text on the left.
C12_Witness ==
  /\ call \in TextDetectorCalls
  /\ \E p \in DOMAIN outcome.matches :
       LET from == MatchStart(p)
           to   == from + Len(outcome.matches[p].match)
       IN  /\ from > ContextWindow
           /\ to + ContextWindow > Len(args.description.chars)
           /\ Len(outcome.matches[p].context)
                = ContextWindow + (Len(args.description.chars) - from) + 2 * Len(Ellipsis)

\* C20: every match of the correlator names a referenced server, and that
\* name is one of the candidate names: an other server's name that the safe
\* list does not hold, or a well-known name that is not the current
\* server's; an other server's name that the safe list holds and that is
\* not well known is never the referenced server.
C20_ReferencedServerIsCandidate ==
  call = "detectCrossOriginViolations" =>
    \A p \in DOMAIN outcome.matches :
      LET referenced == outcome.matches[p].referencedServer
      IN  /\ referenced.defined
          /\ \/ /\ referenced.chars \in Range(args.otherServerNames.names)
                /\ args.safeList.defined => referenced.chars \notin Range(args.safeList.names)
             \/ /\ referenced.chars \in Range(POPULAR_MCP_SERVERS)
                /\ referenced.chars # args.currentServerName

\* A description that names a safe-listed other server and a well-known
\* server: only the well-known one is reported.
C20_Witness ==
  /\ call = "detectCrossOriginViolations"
  /\ args.currentServerName = <<"n", "o", "t", "e", "s">>
  /\ args.otherServerNames.names = << <<"m", "y", "-", "s", "e", "r", "v", "e", "r">> >>
  /\ args.safeList.defined
  /\ <<"(", "m", "y", "-", "s", "e", "r", "v", "e", "r", ")">> \in Range(DescriptionTokens)
  /\ Len(outcome.matches) = 1
  /\ outcome.matches[1].referencedServer.chars = <<"s", "l", "a", "c", "k">>

(***************************************************************************)
(* Properties of getTools.                                                 *)
(***************************************************************************)
GetToolsSettled == connector.pc = "settled"

TransportCreated == connector.transport # "none"

\* C16: a call of getTools that created a transport has called the
\* client's close at least once when it settles, whether it returns the
\* tools, fails on the timeout or fails because connect or listTools failed.
C16_CloseBeforeSettling ==
  GetToolsSettled /\ TransportCreated => connector.closeCalls >= 1

\* A call that failed on the timeout, with the client closed once.
C16_Witness ==
  /\ GetToolsSettled
  /\ TransportCreated
  /\ connector.result.kind = "TimeoutError"
  /\ connector.connectionPromise = "pending"
  /\ connector.closeCalls = 1

\* C17: a failure of close never changes the outcome: when connect and
\* listTools succeeded the call returns the tools of the response, and an
\* error it fails with never carries the message of a close error.
C17_CloseErrorsSwallowed ==
  GetToolsSettled =>
    /\ connector.listTools = "fulfilled" =>
          connector.result = ReturnsTools(connector.toolsResponse)
    /\ connector.result.kind = "ConnectionError" =>
          \A error \in CloseErrors : connector.result.cause # error.message

\* C18: the outcome is decided by what settles first.  When the 30 seconds
\* pass while the server has not answered (the connection or the tool
\* enumeration is pending) the call fails with the timeout error; when the
\* connection fails before that the call fails with the connection error.
C18_TimerBoundsTheCall ==
  GetToolsSettled /\ TransportCreated =>
    /\ connector.unanswered => connector.result.kind = "TimeoutError"
    /\ connector.connectionPromise = "rejected" /\ ~connector.unanswered =>
          connector.result.kind = "ConnectionError"

(***************************************************************************)
(* Properties of analyzeWithClaude.                                        *)
(***************************************************************************)
\* The call was given no credentials: no API key and, in the form that
\* takes the flag, no request for Bedrock.
NoCredentials ==
  /\ ~IsTruthy(analyzer.apiKey)
  /\ analyzer.form = "apiKey, useBedrock" => analyzer.useBedrock # "true"

\* The response cannot be read: it has no block, or its first block has no
\* text.
ResponseUnreadable ==
  /\ analyzer.response.state = "fulfilled"
  /\ \/ analyzer.response.content = <<>>
     \/ analyzer.response.content[1].type # "text"

IsErrorAnalysis(result) ==
  /\ result.overallRisk = "null"
  /\ Len(result.analysis) >= Len(ErrorPrefix)
  /\ SubSeq(result.analysis, 1, Len(ErrorPrefix)) = ErrorPrefix

\* C19: analyzeWithClaude makes at most one API call, and when it settles
\* it returns: without credentials the explanatory message with a null
\* risk and no API call; when the API call is rejected or the response
\* cannot be read, an error message with a null risk.
C19_AnalysisNeverPropagates ==
  /\ analyzer.apiCalls <= 1
  /\ analyzer.pc = "settled" =>
       /\ analyzer.result.kind = "returned"
       /\ NoCredentials =>
             /\ analyzer.apiCalls = 0
             /\ analyzer.result = ReturnsAnalysis(AnalysisUnavailable, "null")
       /\ analyzer.response.state = "rejected" \/ ResponseUnreadable =>
             IsErrorAnalysis(analyzer.result)

\* A call through Bedrock, without an API key, whose one request is rejected.
C19_Witness ==
  /\ analyzer.pc = "settled"
  /\ ~IsTruthy(analyzer.apiKey)
  /\ analyzer.client = "bedrock"
  /\ analyzer.response.state = "rejected"
  /\ analyzer.apiCalls = 1
  /\ IsErrorAnalysis(analyzer.result)

(***************************************************************************)
(* Properties of the scan.                                                 *)
(***************************************************************************)
ScanServers == DOMAIN scan.servers

\* getTools threw for server i.
GetToolsThrew(i) == scan.settled[i].kind \in {"TimeoutError", "ConnectionError", "ConfigError"}

\* The number of events of a type emitted for server i.
EventsOfType(i, type) ==
  Cardinality({n \in DOMAIN scan.events[i] : scan.events[i][n].type = type})

\* The number of events of a type emitted for the tools of server i with
\* a name, among the first n events of the server.
ToolEvents(i, type, toolName, n) ==
  Cardinality({m \in 1..n : /\ scan.events[i][m].type = type
                            /\ scan.events[i][m].toolName = toolName})

\* The number of tools of server i with a name and a state among states.
ToolsIn(i, toolName, states) ==
  Cardinality({k \in DOMAIN scan.tools[i] : /\ scan.tools[i][k].name = toolName
                                            /\ scan.toolState[i][k] \in states})

\* The vulnerabilities of the result that name a server.
VulnerabilitiesOf(serverName) ==
  {n \in DOMAIN scan.result.vulnerabilities : scan.result.vulnerabilities[n].server = serverName}

\* C13: a server whose connection fails does not abort the scan.  For every
\* server getTools threw for, exactly one server-error event and no other
\* event is emitted, and the server contributes no tool and no finding;
\* the scan is still running after the failure until it has returned; and
\* when it has returned, every server is connected or in error and the
\* ScanResult holds the findings of the servers that connected.
C13_FailureDoesNotAbortScan ==
  /\ \A i \in ScanServers :
       GetToolsThrew(i) =>
         /\ scan.serverState[i] = "error"
         /\ Len(scan.events[i]) = 1
         /\ scan.events[i][1].type = "server-error"
         /\ scan.events[i][1].serverName = scan.servers[i].name
         /\ scan.tools[i] = <<>>
         /\ scan.findings[i] = <<>>
         /\ VulnerabilitiesOf(scan.servers[i].name) = {}
  /\ (\E i \in ScanServers : GetToolsThrew(i)) =>
       \/ scan.result.returned
       \/ scan.pc \in {"scanning", "correlated"}
  /\ scan.result.returned =>
       /\ \A j \in ScanServers : scan.serverState[j] \in {"connected", "error"}
       /\ \A j \in ScanServers :
            \A n \in DOMAIN scan.findings[j] :
              \E m \in DOMAIN scan.result.vulnerabilities :
                scan.result.vulnerabilities[m] = scan.findings[j][n]

\* A scan has returned in which one server failed to connect and another
\* connected and has a finding in the result.
C13_Witness ==
  /\ scan.result.returned
  /\ \E i, j \in ScanServers :
       /\ GetToolsThrew(i)
       /\ scan.serverState[j] = "connected"
       /\ scan.findings[j] # <<>>
       /\ VulnerabilitiesOf(scan.servers[j].name) # {}

\* C14: correlation is behind a barrier.  When the correlation pass has
\* run, every server is connected or in error and the pass has seen the
\* name of every configured server; and a ScanResult is returned only
\* after the correlation pass.
C14_CorrelationAfterAllServers ==
  /\ scan.correlated =>
       /\ \A i \in ScanServers : scan.serverState[i] \in {"connected", "error"}
       /\ scan.correlationIndex = {scan.servers[i].name : i \in ScanServers}
  /\ scan.result.returned => scan.correlated

\* A scan of two servers has returned, one of them in error, with a
\* cross-reference finding of the correlation pass.
C14_Witness ==
  /\ scan.result.returned
  /\ Len(scan.servers) = 2
  /\ \E i \in ScanServers : scan.crossRefs[i] # <<>>
  /\ \E j \in ScanServers : scan.serverState[j] = "error"

\* The events of server i follow the state machines: one terminal event
\* when the server is connected or in error, of the type of the state; for
\* every tool one tool-scanning event when it is scanning or analyzed and
\* one tool-analyzed event when it is analyzed, the second after the first
\* and both after server-connected; no tool event for a server in error.
EventsFollowStateMachines(i) ==
  /\ EventsOfType(i, "server-connected") = (IF scan.serverState[i] = "connected" THEN 1 ELSE 0)
  /\ EventsOfType(i, "server-error") = (IF scan.serverState[i] = "error" THEN 1 ELSE 0)
  /\ scan.serverState[i] = "error" => Len(scan.events[i]) = 1
  /\ \A n \in DOMAIN scan.events[i] :
       /\ scan.events[i][n].serverName = scan.servers[i].name
       /\ scan.events[i][n].type \in {"server-connected", "server-error"} <=> n = 1
       /\ scan.events[i][n].type \in {"tool-scanning", "tool-analyzed"} =>
            LET toolName == scan.events[i][n].toolName
            IN  /\ scan.events[i][1].type = "server-connected"
                /\ ToolEvents(i, "tool-scanning", toolName, Len(scan.events[i]))
                     = ToolsIn(i, toolName, {"scanning", "analyzed"})
                /\ ToolEvents(i, "tool-analyzed", toolName, Len(scan.events[i]))
                     = ToolsIn(i, toolName, {"analyzed"})
                /\ ToolEvents(i, "tool-analyzed", toolName, n)
                     <= ToolEvents(i, "tool-scanning", toolName, n - 1)
  /\ \A k \in DOMAIN scan.tools[i] :
       /\ ToolEvents(i, "tool-scanning", scan.tools[i][k].name, Len(scan.events[i]))
            = ToolsIn(i, scan.tools[i][k].name, {"scanning", "analyzed"})
       /\ ToolEvents(i, "tool-analyzed", scan.tools[i][k].name, Len(scan.events[i]))
            = ToolsIn(i, scan.tools[i][k].name, {"analyzed"})

ToolNodesOfTree ==
  {n \in DOMAIN display.tree.nodes :
     /\ display.tree.nodes[n].parent # NoNode
     /\ display.tree.nodes[n].parent # display.tree.root}

ShowsScanning(content) == IsSubstring(<<"scanning...">>, content)

ShowsAnalyzed(content) ==
  \/ IsSubstring(<<"Verified">>, content)
  \/ IsSubstring(<<"Prompt Injection detected">>, content)

\* C21: when the scan has returned, its events having come in the order
\* of the state machines, every node of a tool under a connected server
\* shows Verified or the issue with its risk level, and none shows
\* "scanning...".
C21_EveryToolNodeShowsAnalyzed ==
  display.pc = "done" =>
    \A n \in ToolNodesOfTree :
      /\ ShowsAnalyzed(display.tree.nodes[n].content)
      /\ ~ShowsScanning(display.tree.nodes[n].content)

====
